---- MODULE Spec2Model ----
(***************************************************************************)
(* Connector lifecycle and resilience engine of python-connectors:         *)
(* the retry executor (connectors/utils/retry.py), the connector           *)
(* lifecycle (connectors/base.py) and the lifecycle methods of the         *)
(* adapters built on it (connectors/db, connectors/messaging,              *)
(* connectors/social_media, tests/test_base.py).                           *)
(*                                                                         *)
(* Time is counted in ticks of a tenth of a second (1.0 s = 10 ticks);     *)
(* backoff factors are whole numbers.                                      *)
(***************************************************************************)
EXTENDS Integers, Sequences, FiniteSets, TLC

VARIABLES
    rt,                \* per thread: the frame of retry_on_exception.wrapper
    adapter,           \* which adapter class the instance is
    config,            \* self.config
    connected,         \* self._connected
    resource,          \* the adapter's handle (connection / smtp_client / session)
    authenticated,     \* SocialMediaConnector.authenticated
    connection_count,  \* self.metrics.metrics.connection_count
    pc,                \* per thread: position of the caller in the lifecycle API
    scope,             \* per thread: observation of the current / last scoped acquisition
    cwr,               \* per thread: observation of the last connect_with_retry call
    direct,            \* per thread: observation of the last direct connect()/disconnect()
    established,       \* number of connect() calls that established the resource
    ops,               \* number of top-level calls begun
    heap,              \* the OperationMetric objects created so far (id = index)
    operations,        \* self.metrics.metrics.operations, as ids into heap
    successful_operations,  \* self.metrics.metrics.successful_operations
    failed_operations,      \* self.metrics.metrics.failed_operations
    total_duration,    \* self.metrics.metrics.total_duration
    lock,              \* MetricsCollector._lock: "none" or the thread holding it
    clock,             \* time.time(), in ticks
    mx,                \* per thread: the frame of its call into the metrics API
    snap,              \* per thread: the last ConnectorMetrics copy it was handed
    calls,             \* per thread: calls of the metrics API begun / successful
    connectors,        \* ConnectorRegistry._connectors: name -> class, in insertion order
    instances,         \* ConnectorRegistry._instances: name -> object id, in insertion order
    objects,           \* the connector objects built by the registry (id = index)
    reg,               \* observation of the last registry call
    regops,            \* number of registry calls made
    rpc,               \* per thread: the frame of its call into the registry
    probe,             \* observation of the last test_connection() call
    config_maps,       \* the config dict objects (id = index)
    config_refs,       \* which dict the caller / self.config / a second instance refer to
    config_built,      \* the content of the config at construction
    collectors,        \* the aggregates of the MetricsCollector objects (id = index)
    created_by,        \* how the further instances, if any, were built
    metrics_of,        \* self.metrics of each further instance: a collector id, 0 for None
    states_of,         \* _connected and the adapter's handle of each further instance
    icall              \* observation of the last call on one of the further instances

metricsVars == <<heap, operations, successful_operations, failed_operations,
                 total_duration, lock, clock, mx, snap, calls>>

registryVars == <<connectors, instances, objects, reg, regops, rpc>>

ownershipVars == <<config_maps, config_refs, config_built,
                   collectors, created_by, metrics_of, states_of, icall>>

vars == <<rt, adapter, config, connected, resource, authenticated,
          connection_count, pc, scope, cwr, direct, established, ops,
          metricsVars, registryVars, probe, ownershipVars>>

lifecycleVars == <<adapter, config, connected, resource, authenticated,
                   connection_count, pc, scope, cwr, direct, established, ops,
                   metricsVars, registryVars, probe, ownershipVars>>

\* everything but the metrics aggregate and the metrics calls
instanceVars == <<rt, adapter, config, connected, resource, authenticated,
                  pc, scope, cwr, direct, established, ops>>

----------------------------------------------------------------------------
(* Bounds of the model *)

MaxAttempts == 3
MaxOps == 3
\* calls of the metrics API, all threads together
MaxCalls == 3
\* calls made on the registry and on the objects it built
MaxRegOps == 4
\* attempts of the policy whose whole delay sequence is followed
SeqAttempts == 7

\* threads that may share the instance; the lifecycle specification below
\* drives it from MainThread alone
Threads == {"t1", "t2"}
MainThread == "t1"

Min(a, b) == IF a < b THEN a ELSE b

RECURSIVE Pow(_, _)
Pow(b, e) == IF e = 0 THEN 1 ELSE b * Pow(b, e - 1)

----------------------------------------------------------------------------
(* Exceptions: connectors/exceptions/connector_exceptions.py *)

ExceptionClasses ==
    {"BaseException", "Exception", "KeyboardInterrupt", "TypeError", "OSError",
     "LookupError", "KeyError", "AttributeError", "SocialMediaAPIError",
     "ConnectorError", "ConnectionError", "ConfigurationError",
     "AuthenticationError", "RetryExhaustedError",
     "SocialMediaConnectionError", "SocialMediaAuthenticationError"}

\* the base class named in each class statement
Parent(c) ==
    CASE c = "SocialMediaConnectionError"     -> "ConnectionError"
      [] c = "SocialMediaAuthenticationError" -> "AuthenticationError"
      [] c \in {"ConnectionError", "ConfigurationError", "AuthenticationError",
                "RetryExhaustedError", "SocialMediaAPIError"} -> "ConnectorError"
      [] c = "KeyError"                       -> "LookupError"
      [] c \in {"ConnectorError", "TypeError", "OSError", "LookupError",
                "AttributeError"} -> "Exception"
      [] OTHER                                -> "BaseException"

RECURSIVE IsSubclass(_, _)
IsSubclass(c, d) ==
    IF c = d THEN TRUE
    ELSE IF c = "BaseException" THEN FALSE
    ELSE IsSubclass(Parent(c), d)

\* `except classes as e` catches e when it is an instance of one of the classes
Caught(cls, classes) == \E d \in classes : IsSubclass(cls, d)

NoCause == [cls |-> "None", at |-> 0]
NoExc == [cls |-> "None", at |-> 0, cause |-> NoCause]
\* an exception object; `at` is the number of the func call that raised it
\* (0 when the executor or the host raised it)
Exc(cls, at) == [cls |-> cls, at |-> at, cause |-> NoCause]
\* raise cls(...) from e
ExcFrom(cls, e) == [cls |-> cls, at |-> 0, cause |-> [cls |-> e.cls, at |-> e.at]]

Return(v) == [type |-> "return", value |-> v, exc |-> NoExc]
Raise(e) == [type |-> "raise", value |-> "None", exc |-> e]
NoOutcome == [type |-> "none", value |-> "None", exc |-> NoExc]

----------------------------------------------------------------------------
(* Retry executor: connectors/utils/retry.py *)

RetryDefaults ==
    [max_attempts |-> 3, backoff_factor |-> 2, initial_delay |-> 10,
     max_delay |-> 600, exceptions |-> {"Exception"}, jitter |-> TRUE]

IdleFrame ==
    [pc |-> "idle", func |-> "none", policy |-> RetryDefaults, attempt |-> 0,
     hist |-> <<>>, slept |-> <<>>, delay |-> 0,
     last_exception |-> NoExc, outcome |-> NoOutcome]

\* faulty variant: the loop runs one time less, range(max_attempts - 1)
LoopPc_OneShort(p, attempt) ==
    IF attempt < p.max_attempts - 1 THEN "call" ELSE "fallthrough"

\* range(max_attempts): the loop body runs while attempt < max_attempts
LoopPc(p, attempt) == IF attempt < p.max_attempts THEN "call" ELSE "fallthrough"

\* wrapper(*args, **kwargs) up to the first call of func
WrapperStart(p, func) ==
    [IdleFrame EXCEPT !.pc = LoopPc(p, 0), !.func = func, !.policy = p]

\* faulty variant: the exponent is the number of the next attempt
BackoffDelay_NextAttempt(p, attempt) ==
    Min(p.initial_delay * Pow(p.backoff_factor, attempt + 1), p.max_delay)

\* delay = min(initial_delay * (backoff_factor ** attempt), max_delay)
BackoffDelay(p, attempt) ==
    Min(p.initial_delay * Pow(p.backoff_factor, attempt), p.max_delay)

\* random.uniform(0, delay * 0.1), in whole ticks
JitterDraws(p, delay) == IF p.jitter THEN 0 .. (delay \div 10) ELSE {0}

\* faulty variant: the last-attempt test is off by one
IsLastAttempt_OffByOne(p, attempt) == attempt = p.max_attempts

\* if attempt == max_attempts - 1
IsLastAttempt(p, attempt) == attempt = p.max_attempts - 1

\* faulty variant: a bare `except Exception`, every failure is retried
WrapperOnRaise_CatchAll(f, e, jit) ==
    IF IsLastAttempt(f.policy, f.attempt)
    THEN [f EXCEPT !.pc = "done", !.last_exception = e,
                   !.outcome = Raise(ExcFrom("RetryExhaustedError", e))]
    ELSE [f EXCEPT !.pc = "sleep", !.last_exception = e,
                   !.delay = BackoffDelay(f.policy, f.attempt) + jit]

\* except exceptions as e: ...
WrapperOnRaise(f, e, jit) ==
    IF ~Caught(e.cls, f.policy.exceptions)
    THEN [f EXCEPT !.pc = "done", !.outcome = Raise(e)]
    ELSE IF IsLastAttempt(f.policy, f.attempt)
    THEN [f EXCEPT !.pc = "done", !.last_exception = e,
                   !.outcome = Raise(ExcFrom("RetryExhaustedError", e))]
    ELSE [f EXCEPT !.pc = "sleep", !.last_exception = e,
                   !.delay = BackoffDelay(f.policy, f.attempt) + jit]

\* faulty variant: the result is kept and the loop goes on
WrapperAfterCall_NoEarlyReturn(f, out, jit) ==
    LET g == [f EXCEPT !.hist = Append(f.hist, out)]
    IN  IF out.type = "return"
        THEN [g EXCEPT !.outcome = out, !.attempt = f.attempt + 1,
                       !.pc = IF f.attempt + 1 < f.policy.max_attempts
                              THEN "call" ELSE "done"]
        ELSE WrapperOnRaise(g, out.exc, jit)

\* one pass of the loop body from the call of func to the sleep or the exit
WrapperAfterCall(f, out, jit) ==
    LET g == [f EXCEPT !.hist = Append(f.hist, out)]
    IN  IF out.type = "return"
        THEN [g EXCEPT !.pc = "done", !.outcome = out]
        ELSE WrapperOnRaise(g, out.exc, jit)

\* time.sleep(delay) returned: next iteration of the loop
WrapperAfterSleep(f) ==
    [f EXCEPT !.slept = Append(f.slept, f.delay),
              !.attempt = f.attempt + 1,
              !.pc = LoopPc(f.policy, f.attempt + 1)]

\* faulty variant: the interruption is swallowed and the loop goes on
WrapperSleepInterrupted_Retries(f) ==
    [f EXCEPT !.attempt = f.attempt + 1,
              !.pc = LoopPc(f.policy, f.attempt + 1)]

\* time.sleep(delay) was interrupted: the exception leaves the wrapper
WrapperSleepInterrupted(f) ==
    [f EXCEPT !.pc = "done", !.outcome = Raise(Exc("KeyboardInterrupt", 0))]

\* raise last_exception, after the loop (raise None is a TypeError)
WrapperFallthrough(f) ==
    [f EXCEPT !.pc = "done",
              !.outcome = IF f.last_exception = NoExc
                          THEN Raise(Exc("TypeError", 0))
                          ELSE Raise(f.last_exception)]

\* initial_delay 1 s, backoff_factor 2, max_delay 10 s, no jitter
SequencePolicy ==
    [max_attempts |-> SeqAttempts, backoff_factor |-> 2, initial_delay |-> 10,
     max_delay |-> 100, exceptions |-> {"ConnectionError"}, jitter |-> FALSE]

\* policies the generic executor is called with
Policies ==
    {SequencePolicy} \cup
    [max_attempts : 0 .. MaxAttempts,
     backoff_factor : {1, 2},
     initial_delay : {0, 10},
     max_delay : {10, 30},
     exceptions : {{"Exception"}, {"ConnectionError"},
                   {"ConnectionError", "AuthenticationError"}},
     jitter : BOOLEAN]

\* what a call of the decorated operation can do
OpRaises == {"ConnectionError", "SocialMediaConnectionError",
             "ConfigurationError", "KeyboardInterrupt"}
OpOutcomes(n) == {Return("result")} \cup {Raise(Exc(c, n)) : c \in OpRaises}

\* a caller invokes a decorated operation
RetryCall(t) ==
    /\ rt[t].pc = "idle"
    /\ pc[t] = "idle"
    /\ \E p \in Policies : rt' = [rt EXCEPT ![t] = WrapperStart(p, "op")]
    /\ UNCHANGED lifecycleVars

\* return func(*args, **kwargs) and the except clause
RetryInvokeOp(t) ==
    /\ rt[t].pc = "call"
    /\ rt[t].func = "op"
    /\ \E out \in OpOutcomes(Len(rt[t].hist) + 1) :
         \E jit \in JitterDraws(rt[t].policy,
                               BackoffDelay(rt[t].policy, rt[t].attempt)) :
            rt' = [rt EXCEPT ![t] = WrapperAfterCall(rt[t], out, jit)]
    /\ UNCHANGED lifecycleVars

RetrySleep(t) ==
    /\ rt[t].pc = "sleep"
    /\ rt' = [rt EXCEPT ![t] = WrapperAfterSleep(rt[t])]
    /\ UNCHANGED lifecycleVars

RetrySleepInterrupted(t) ==
    /\ rt[t].pc = "sleep"
    /\ rt' = [rt EXCEPT ![t] = WrapperSleepInterrupted(rt[t])]
    /\ UNCHANGED lifecycleVars

RetryFallthrough(t) ==
    /\ rt[t].pc = "fallthrough"
    /\ rt' = [rt EXCEPT ![t] = WrapperFallthrough(rt[t])]
    /\ UNCHANGED lifecycleVars

----------------------------------------------------------------------------
(* Adapters: connect() and disconnect() of the concrete connectors.        *)
(* s is the instance state [connected, resource, authenticated]; env is    *)
(* what the vendor SDK / server does during the call; n numbers the        *)
(* exception raised.  Each returns [s |-> state after, out |-> outcome].   *)

Adapters == {"mock", "postgresql", "smtp", "twitter"}

\* tests/test_base.py MockConnector.connect
MockConnect(s, env, n) ==
    [s |-> [s EXCEPT !.connected = TRUE], out |-> Return("None")]

\* tests/test_base.py MockConnector.disconnect
MockDisconnect(s, env) ==
    [s |-> [s EXCEPT !.connected = FALSE], out |-> Return("None")]

\* db/postgresql.py PostgreSQLConnector.connect
PostgresConnect(s, env, n) ==
    CASE env = "import_error" ->
           [s |-> s, out |-> Raise(Exc("ConfigurationError", n))]
      [] env = "connect_error" ->
           [s |-> s, out |-> Raise(Exc("ConnectionError", n))]
      [] env = "cursor_error" ->
           [s |-> [s EXCEPT !.resource = "open"],
            out |-> Raise(Exc("ConnectionError", n))]
      [] OTHER ->
           [s |-> [s EXCEPT !.resource = "open", !.connected = TRUE],
            out |-> Return("None")]

\* db/postgresql.py PostgreSQLConnector.disconnect once cursor.close() and
\* connection.close() have returned or one of them has raised: the handles
\* and _connected are cleared, or the except clause logs and clears nothing.
\* Neither close changes a field of the instance, so the two are one wait.
PostgresClose(s, env) ==
    IF env = "close_error"
    THEN [s |-> s, out |-> Return("None")]
    ELSE [s |-> [s EXCEPT !.resource = "none", !.connected = FALSE],
          out |-> Return("None")]

\* db/postgresql.py PostgreSQLConnector.disconnect, nothing else running
\* meanwhile; without a handle there is nothing to close
PostgresDisconnect(s, env) ==
    IF s.resource = "open" THEN PostgresClose(s, env)
    ELSE [s |-> [s EXCEPT !.connected = FALSE], out |-> Return("None")]

\* messaging/smtp.py SMTPConnector.connect up to the login: smtplib.SMTP(...)
\* opens the socket and the client is stored in self.smtp_client.  An
\* outcome of type none says that connect() goes on.
SMTPOpen(s, env, n) ==
    IF env = "socket_error"
    THEN [s |-> s, out |-> Raise(Exc("ConnectionError", n))]
    ELSE [s |-> [s EXCEPT !.resource = "open"], out |-> NoOutcome]

\* faulty variant: _connected is set before the login
SMTPLogin_EarlyFlag(s, env, n) ==
    IF env = "login_error"
    THEN [s |-> [s EXCEPT !.connected = TRUE],
          out |-> Raise(Exc("ConnectionError", n))]
    ELSE [s |-> [s EXCEPT !.connected = TRUE], out |-> Return("None")]

\* messaging/smtp.py SMTPConnector.connect from the answer to the login on:
\* self._connected = True, or the except clause
SMTPLogin(s, env, n) ==
    IF env = "login_error"
    THEN [s |-> s, out |-> Raise(Exc("ConnectionError", n))]
    ELSE [s |-> [s EXCEPT !.connected = TRUE], out |-> Return("None")]

\* messaging/smtp.py SMTPConnector.connect, nothing else running meanwhile
SMTPConnect(s, env, n) ==
    LET o == SMTPOpen(s, env, n)
    IN  IF o.out.type = "none" THEN SMTPLogin(o.s, env, n) ELSE o

\* messaging/smtp.py SMTPConnector.disconnect once smtp_client.quit() has
\* returned or raised: the except clause logs, the finally clause clears
SMTPQuit(s, env) ==
    [s |-> [s EXCEPT !.resource = "none", !.connected = FALSE],
     out |-> Return("None")]

\* messaging/smtp.py SMTPConnector.disconnect, nothing else running meanwhile
SMTPDisconnect(s, env) ==
    IF s.resource = "open" THEN SMTPQuit(s, env)
    ELSE [s |-> s, out |-> Return("None")]

\* social_media/twitter.py: self.session = requests.Session(), in connect()
\* and, when there is none, in authenticate(); the request is sent
TwitterSession(s) == [s EXCEPT !.resource = "open"]

\* social_media/twitter.py TwitterConnector.authenticate from the answer to
\* session.get on.  env status_other is a response whose status is neither
\* 200 nor an error _handle_api_error raises for (below 400): authenticate
\* returns False; in every other failure the except clause raises
\* SocialMediaAuthenticationError
TwitterAnswer(s, env, n) ==
    CASE env = "ok" ->
           [s |-> [s EXCEPT !.authenticated = TRUE], out |-> Return("True")]
      [] env = "status_other" ->
           [s |-> s, out |-> Return("False")]
      [] OTHER ->
           [s |-> s, out |-> Raise(Exc("SocialMediaAuthenticationError", n))]

\* social_media/twitter.py TwitterConnector.authenticate, nothing else
\* running meanwhile
TwitterAuthenticate(s, env, n) == TwitterAnswer(TwitterSession(s), env, n)

\* social_media/twitter.py TwitterConnector.connect from the answer to
\* session.get on: return self.authenticate(), or the except clause
TwitterConnectAnswer(s, env, n) ==
    LET a == TwitterAnswer(s, env, n)
    IN  IF a.out.type = "raise" /\ Caught(a.out.exc.cls, {"Exception"})
        THEN [s |-> a.s, out |-> Return("False")]
        ELSE a

\* social_media/twitter.py TwitterConnector.connect, nothing else running
\* meanwhile
TwitterConnect(s, env, n) == TwitterConnectAnswer(TwitterSession(s), env, n)

\* social_media/base_social.py SocialMediaConnector.disconnect once
\* session.close() has returned or raised
SocialClose(s, env) ==
    IF env = "close_error"
    THEN [s |-> s, out |-> Raise(Exc("OSError", 0))]
    ELSE [s |-> [s EXCEPT !.resource = "none", !.authenticated = FALSE],
          out |-> Return("True")]

\* social_media/base_social.py SocialMediaConnector.disconnect, nothing else
\* running meanwhile
SocialDisconnect(s, env) ==
    IF s.resource = "open" THEN SocialClose(s, env)
    ELSE [s |-> [s EXCEPT !.authenticated = FALSE], out |-> Return("True")]

ConnectEnvs(kind) ==
    CASE kind = "mock"       -> {"ok"}
      [] kind = "postgresql" -> {"ok", "import_error", "connect_error", "cursor_error"}
      [] kind = "smtp"       -> {"ok", "socket_error", "login_error"}
      [] OTHER               -> {"ok", "auth_error", "status_other"}

\* a close can only fail when there is a handle to close
DisconnectEnvs(kind, s) ==
    IF kind # "mock" /\ s.resource = "open" THEN {"ok", "close_error"} ELSE {"ok"}

\* self.connect() up to the point where it waits for the server: the handle
\* the adapter has stored by then.  An outcome of type none says that
\* connect() goes on when the answer arrives.
AdapterConnectOpen(kind, s, env, n) ==
    CASE kind = "smtp"    -> SMTPOpen(s, env, n)
      [] kind = "twitter" -> [s |-> TwitterSession(s), out |-> NoOutcome]
      [] OTHER            -> [s |-> s, out |-> NoOutcome]

\* self.connect() from the answer of the server on, on the instance as it
\* is by then
AdapterConnectAnswer(kind, s, env, n) ==
    CASE kind = "mock"       -> MockConnect(s, env, n)
      [] kind = "postgresql" -> PostgresConnect(s, env, n)
      [] kind = "smtp"       -> SMTPLogin(s, env, n)
      [] OTHER               -> TwitterConnectAnswer(s, env, n)

\* self.connect(), nothing else running meanwhile
AdapterConnect(kind, s, env, n) ==
    LET o == AdapterConnectOpen(kind, s, env, n)
    IN  IF o.out.type = "none" THEN AdapterConnectAnswer(kind, o.s, env, n)
        ELSE o

\* what the server can answer once connect() waits for it
AnswerEnvs(kind, s) ==
    {env \in ConnectEnvs(kind) : AdapterConnectOpen(kind, s, env, 0).out.type = "none"}

\* self.disconnect()
AdapterDisconnect(kind, s, env) ==
    CASE kind = "mock"       -> MockDisconnect(s, env)
      [] kind = "postgresql" -> PostgresDisconnect(s, env)
      [] kind = "smtp"       -> SMTPDisconnect(s, env)
      [] OTHER               -> SocialDisconnect(s, env)

\* self.disconnect() found a handle and waits for its close to end; the
\* mock of the tests has no handle
DisconnectWaits(kind, s) ==
    kind \in {"postgresql", "smtp", "twitter"} /\ s.resource = "open"

\* self.disconnect() from the end of the close on, on the instance as it is
\* by then
AdapterDisconnectAnswer(kind, s, env) ==
    CASE kind = "postgresql" -> PostgresClose(s, env)
      [] kind = "smtp"       -> SMTPQuit(s, env)
      [] OTHER               -> SocialClose(s, env)

\* how the close of a handle can end
CloseEnvs == {"ok", "close_error"}

\* the connect() call established the underlying resource
Establishes(env) == env = "ok"

----------------------------------------------------------------------------
(* Connector lifecycle: connectors/base.py BaseConnector *)

\* retry_config = self.config.get('retry', {}) and the decorator arguments
ConfigPolicy(cfg) ==
    [max_attempts |-> cfg.retry.max_attempts,
     backoff_factor |-> cfg.retry.backoff_factor,
     initial_delay |-> cfg.retry.initial_delay,
     max_delay |-> cfg.retry.max_delay,
     exceptions |-> {"ConnectionError"},
     jitter |-> RetryDefaults.jitter]

\* faulty variant: the connection is not counted
CwrCounts_Never(cfg, out) == FALSE

\* connect_with_retry after _connect() returned: if self.metrics, the
\* connection is counted
CwrCounts(cfg, out) == out.type = "return" /\ cfg.metrics_enabled

\* connect_with_retry after _connect() returned: self._connected = True
CwrMark(s, out) ==
    IF out.type = "return" THEN [s EXCEPT !.connected = TRUE] ELSE s

\* connect_with_retry after _connect() when nothing else runs in between:
\* count the connection, mark connected
\* m is [s |-> instance state, count |-> connection_count]
CwrTail(cfg, m, out) ==
    [s |-> CwrMark(m.s, out),
     count |-> IF CwrCounts(cfg, out) THEN m.count + 1 ELSE m.count]

\* faulty variant: the finally clause releases nothing
FinallyReleases_Never(s) == FALSE

\* connection(), the finally clause: if self._connected
FinallyReleases(s) == s.connected

\* the outcome a teardown hands on: connection() logs an Exception raised by
\* disconnect(), __exit__ lets it propagate
TeardownOutcome(form, disc) ==
    IF disc.type = "raise" /\ form = "connection"
                          /\ Caught(disc.exc.cls, {"Exception"})
    THEN Return("None")
    ELSE disc

\* what the with statement hands to its caller: an exception of the teardown
\* replaces the outcome of the enclosed work
ScopeOutcome(work, fin) == IF fin.out.type = "raise" THEN fin.out ELSE work

\* what the enclosed work of a scope can do
WorkOutcomes ==
    {Return("None"), Raise(Exc("OSError", 0)), Raise(Exc("KeyboardInterrupt", 0))}

----------------------------------------------------------------------------
(* Initial state: a freshly constructed instance, BaseConnector.__init__ *)

NoScope == [form |-> "none", state |-> "none", pre_connected |-> FALSE,
            pre_count |-> 0, connects |-> 0, disconnects |-> 0,
            body_connected |-> FALSE, work |-> NoOutcome,
            teardown |-> NoOutcome, exit |-> NoOutcome,
            post_connected |-> FALSE, post_count |-> 0]

NoCall == [op |-> "none", state |-> "none", pre_connected |-> FALSE,
           pre_count |-> 0, outcome |-> NoOutcome,
           post_connected |-> FALSE, post_count |-> 0]

\* config: metrics_enabled and the retry section (RetryConfig: max_attempts >= 1,
\* initial_delay >= 0.1 s, here one tick, so the jitter stays below a tick)
Configs ==
    [metrics_enabled : BOOLEAN,
     retry : [max_attempts : 1 .. MaxAttempts,
              backoff_factor : {2},
              initial_delay : {1},
              max_delay : {600}]]

----------------------------------------------------------------------------
(* Metrics: connectors/utils/metrics.py.  An Optional value is <<>> for     *)
(* None and <<v>> for the value v.                                         *)

\* OperationMetric(operation_name=operation_name, start_time=time.time())
NewMetric(name, now) ==
    [operation_name |-> name, start_time |-> now, end_time |-> <<>>,
     success |-> TRUE, error_message |-> <<>>]

\* OperationMetric.duration
Duration(m) ==
    IF m.end_time # <<>> THEN <<m.end_time[1] - m.start_time>> ELSE <<>>

\* ConnectorMetrics(connector_name)
EmptyAggregate ==
    [operations |-> <<>>, connection_count |-> 0, successful_operations |-> 0,
     failed_operations |-> 0, total_duration |-> 0]

\* what a reader of the aggregate a sees, the metrics taken from the heap h
ViewOf(h, a) ==
    [a EXCEPT !.operations = [i \in 1 .. Len(a.operations) |-> h[a.operations[i]]]]

\* the frame of a call into the metrics API
IdleCall ==
    [pc |-> "idle", op |-> "none", metric |-> 0, tmp |-> 0, copy |-> <<>>,
     func |-> NoOutcome, pending |-> NoOutcome, outcome |-> NoOutcome,
     collector_calls |-> 0, pre |-> ViewOf(<<>>, EmptyAggregate),
     local |-> <<>>, summary |-> <<>>, success |-> TRUE, counted |-> TRUE,
     now |-> 0, pos |-> 0, completed_ops |-> <<>>, sum |-> 0]

\* the observation of a registry call
NoRegCall ==
    [op |-> "none", name |-> "none", arg |-> "none", instance_name |-> <<>>,
     pre_connectors |-> <<>>, pre_instances |-> <<>>, pre_objects |-> <<>>,
     outcome |-> NoOutcome, listed |-> <<>>, built |-> 0, disconnected |-> <<>>]

\* the observation of a test_connection() call
NoProbe == [op |-> "none", pre_connected |-> FALSE, inner |-> <<>>,
            outcome |-> NoOutcome, post_connected |-> FALSE,
            pre_count |-> 0, post_count |-> 0]

\* faulty variant: one collector for all the instances
NewCollector_Shared(cs) ==
    IF cs = <<>> THEN [collectors |-> <<EmptyAggregate>>, id |-> 1]
    ELSE [collectors |-> cs, id |-> 1]

\* MetricsCollector.__init__: a collector with its own ConnectorMetrics
NewCollector(cs) == [collectors |-> Append(cs, EmptyAggregate), id |-> Len(cs) + 1]

\* BaseConnector.__init__: self.metrics is a new MetricsCollector, or None
\* when the config disables metrics
InitMetricsField(cfg, cs) ==
    IF cfg.metrics_enabled THEN NewCollector(cs)
    ELSE [collectors |-> cs, id |-> 0]

NoInstanceCall == [inst |-> 0, op |-> "none", outcome |-> NoOutcome]

\* self.config = config: the reference to the map that was handed in, not a
\* copy of it
StoreConfig(given, fresh) == given

\* the frame of a thread's call into the registry; attempted is the set of
\* objects the call has called disconnect() on, dropped the connected objects
\* it removed from _instances without having done so
IdleRegFrame ==
    [pc |-> "idle", op |-> "none", name |-> "none", instance_name |-> <<>>,
     cls |-> "none", instance |-> 0, items |-> <<>>, pos |-> 0,
     attempted |-> {},
     dropped |-> {}, outcome |-> NoOutcome, listed |-> <<>>, built |-> 0]

\* the instance the lifecycle and metrics calls are made on, freshly
\* constructed, an empty registry, no call made yet
InitOne ==
    /\ connectors = <<>>
    /\ instances = <<>>
    /\ objects = <<>>
    /\ reg = NoRegCall
    /\ regops = 0
    /\ rpc = [t \in Threads |-> IdleRegFrame]
    /\ probe = NoProbe
    /\ heap = <<>>
    /\ operations = <<>>
    /\ successful_operations = 0
    /\ failed_operations = 0
    /\ total_duration = 0
    /\ lock = "none"
    /\ clock = 0
    /\ mx = [t \in Threads |-> IdleCall]
    /\ snap = [t \in Threads |-> <<>>]
    /\ calls = [t \in Threads |-> [begun |-> 0, ok |-> 0]]
    /\ rt = [t \in Threads |-> IdleFrame]
    /\ adapter \in Adapters
    /\ config \in Configs
    /\ connected = FALSE
    /\ resource = "none"
    /\ authenticated = FALSE
    /\ connection_count = 0
    /\ pc = [t \in Threads |-> "idle"]
    /\ scope = [t \in Threads |-> NoScope]
    /\ cwr = [t \in Threads |-> NoCall]
    /\ direct = [t \in Threads |-> NoCall]
    /\ established = 0
    /\ ops = 0
    /\ config_maps = <<config, config>>
    /\ config_refs = [caller |-> 1, self |-> StoreConfig(1, 2), other |-> 1]
    /\ config_built = config
    /\ icall = NoInstanceCall

\* no further instance is built
Init ==
    /\ InitOne
    /\ collectors = <<>>
    /\ created_by = "none"
    /\ metrics_of = <<>>
    /\ states_of = <<>>

InitRetry ==
    /\ Init
    /\ adapter = "mock"
    /\ config = [metrics_enabled |-> TRUE,
                 retry |-> [max_attempts |-> 3, backoff_factor |-> 2,
                            initial_delay |-> 1, max_delay |-> 600]]

NextRetry ==
    \/ RetryCall(MainThread)
    \/ RetryInvokeOp(MainThread)
    \/ RetrySleep(MainThread)
    \/ RetrySleepInterrupted(MainThread)
    \/ RetryFallthrough(MainThread)

SpecRetry == InitRetry /\ [][NextRetry]_vars

----------------------------------------------------------------------------
(* Lifecycle operations of one instance, called by thread t *)

Inst == [connected |-> connected, resource |-> resource,
         authenticated |-> authenticated]

SetInst(s) ==
    /\ connected' = s.connected
    /\ resource' = s.resource
    /\ authenticated' = s.authenticated

Began(op) ==
    [NoCall EXCEPT !.op = op, !.state = "running",
                   !.pre_connected = connected, !.pre_count = connection_count]

Ended(c, out, s, count) ==
    [c EXCEPT !.state = IF out.type = "raise" THEN "raised" ELSE "returned",
              !.outcome = out, !.post_connected = s.connected,
              !.post_count = count]

\* a new top-level call of thread t: the observations of its earlier calls
\* are dropped
Forget(t, what) ==
    /\ "rt" \in what => rt' = [rt EXCEPT ![t] = IdleFrame]
    /\ "scope" \in what => scope' = [scope EXCEPT ![t] = NoScope]
    /\ "cwr" \in what => cwr' = [cwr EXCEPT ![t] = NoCall]
    /\ "direct" \in what => direct' = [direct EXCEPT ![t] = NoCall]

\* connector.connect(), called directly
CallConnect(t) ==
    /\ pc[t] = "idle"
    /\ ops < MaxOps
    /\ \E env \in ConnectEnvs(adapter) :
         LET r == AdapterConnect(adapter, Inst, env, 1)
         IN  /\ SetInst(r.s)
             /\ established' = established + (IF Establishes(env) THEN 1 ELSE 0)
             /\ direct' = [direct EXCEPT
                    ![t] = Ended(Began("connect"), r.out, r.s, connection_count)]
    /\ ops' = ops + 1
    /\ Forget(t, {"rt", "scope", "cwr"})
    /\ UNCHANGED <<adapter, config, connection_count, pc>>
    /\ UNCHANGED <<metricsVars, registryVars, probe, ownershipVars>>

\* connector.disconnect(), called directly
CallDisconnect(t) ==
    /\ pc[t] = "idle"
    /\ ops < MaxOps
    /\ \E env \in DisconnectEnvs(adapter, Inst) :
         LET r == AdapterDisconnect(adapter, Inst, env)
         IN  /\ SetInst(r.s)
             /\ direct' = [direct EXCEPT
                    ![t] = Ended(Began("disconnect"), r.out, r.s, connection_count)]
    /\ ops' = ops + 1
    /\ Forget(t, {"rt", "scope", "cwr"})
    /\ UNCHANGED <<adapter, config, connection_count, pc, established>>
    /\ UNCHANGED <<metricsVars, registryVars, probe, ownershipVars>>

\* connector.connect_with_retry(), called directly: up to the first _connect()
CallConnectWithRetry(t) ==
    /\ pc[t] = "idle"
    /\ ops < MaxOps
    /\ pc' = [pc EXCEPT ![t] = "cwr"]
    /\ rt' = [rt EXCEPT ![t] = WrapperStart(ConfigPolicy(config), "connect")]
    /\ cwr' = [cwr EXCEPT ![t] = Began("connect_with_retry")]
    /\ ops' = ops + 1
    /\ Forget(t, {"scope", "direct"})
    /\ UNCHANGED <<adapter, config, connected, resource, authenticated,
                   connection_count, established>>
    /\ UNCHANGED <<metricsVars, registryVars, probe, ownershipVars>>

\* the wrapper calls _connect(), that is self.connect(): connect() runs up to
\* where it waits for the server, or fails before
RetryInvokeConnect(t) ==
    /\ rt[t].pc = "call"
    /\ rt[t].func = "connect"
    /\ \E env \in ConnectEnvs(adapter) :
         LET o == AdapterConnectOpen(adapter, Inst, env, Len(rt[t].hist) + 1)
         IN  /\ SetInst(o.s)
             /\ IF o.out.type = "none"
                THEN rt' = [rt EXCEPT ![t].pc = "wait"]
                ELSE \E jit \in JitterDraws(rt[t].policy,
                                            BackoffDelay(rt[t].policy, rt[t].attempt)) :
                        rt' = [rt EXCEPT ![t] = WrapperAfterCall(rt[t], o.out, jit)]
    /\ scope' = [scope EXCEPT ![t].connects =
                    IF scope[t].state = "entering" THEN @ + 1 ELSE @]
    /\ UNCHANGED <<adapter, config, connection_count, pc, cwr, direct,
                   established, ops>>
    /\ UNCHANGED <<metricsVars, registryVars, probe, ownershipVars>>

\* the server answers: connect() goes on, on the instance as it is by now,
\* and the wrapper handles its outcome
RetryConnectAnswered(t) ==
    /\ rt[t].pc = "wait"
    /\ rt[t].func = "connect"
    /\ \E env \in AnswerEnvs(adapter, Inst) :
         LET r == AdapterConnectAnswer(adapter, Inst, env, Len(rt[t].hist) + 1)
         IN  /\ SetInst(r.s)
             /\ established' = established + (IF Establishes(env) THEN 1 ELSE 0)
             /\ \E jit \in JitterDraws(rt[t].policy,
                                      BackoffDelay(rt[t].policy, rt[t].attempt)) :
                   rt' = [rt EXCEPT ![t] = WrapperAfterCall(rt[t], r.out, jit)]
    /\ UNCHANGED <<adapter, config, connection_count, pc, scope, cwr, direct, ops>>
    /\ UNCHANGED <<metricsVars, registryVars, probe, ownershipVars>>

\* threading.Lock: it can be taken when nobody holds it
Acquirable(l) == l = "none"

\* increment_connection_count: with self._lock
IncrementLock(l) == Acquirable(l)

\* increment_connection_count: the counter is written, the lock released
IncrementWrite(t) ==
    /\ mx[t].pc = "incr_write"
    /\ connection_count' = mx[t].tmp + 1
    /\ lock' = "none"
    /\ mx' = [mx EXCEPT ![t].pc = "idle", ![t].outcome = Return("None")]
    /\ UNCHANGED <<heap, operations, successful_operations, failed_operations,
                   total_duration, clock, snap, calls>>
    /\ UNCHANGED <<instanceVars, registryVars, probe, ownershipVars>>

\* where a thread is while it counts the connection
CountingPc(p) ==
    CASE p = "cwr"        -> "cwr_count"
      [] p = "conn_enter" -> "conn_count"
      [] OTHER            -> "with_count"

\* connect_with_retry after _connect() returned, with metrics:
\* self.metrics.increment_connection_count() takes the lock and reads the
\* counter; the write and the release are the step IncrementWrite
CountConnectionRead(t) ==
    /\ pc[t] \in {"cwr", "conn_enter", "with_enter"}
    /\ rt[t].pc = "done"
    /\ CwrCounts(config, rt[t].outcome)
    /\ mx[t].pc = "idle"
    /\ IncrementLock(lock)
    /\ lock' = t
    /\ mx' = [mx EXCEPT ![t] =
                [IdleCall EXCEPT !.op = "increment_connection_count",
                                 !.pc = "incr_write", !.tmp = connection_count,
                                 !.collector_calls = 1]]
    /\ pc' = [pc EXCEPT ![t] = CountingPc(pc[t])]
    /\ UNCHANGED <<rt, adapter, config, connected, resource, authenticated,
                   connection_count, scope, cwr, direct, established, ops>>
    /\ UNCHANGED <<heap, operations, successful_operations, failed_operations,
                   total_duration, clock, snap, calls>>
    /\ UNCHANGED <<registryVars, probe, ownershipVars>>

\* connect_with_retry is past _connect() and past the counting, if any
PastCounting(t, before, counting) ==
    \/ /\ pc[t] = before
       /\ rt[t].pc = "done"
       /\ ~CwrCounts(config, rt[t].outcome)
    \/ /\ pc[t] = counting
       /\ mx[t].pc = "idle"

\* connect_with_retry, called directly, after _connect() returned or raised
\* and the connection was counted: self._connected = True, return result
ConnectWithRetryFinish(t) ==
    /\ PastCounting(t, "cwr", "cwr_count")
    /\ LET s == CwrMark(Inst, rt[t].outcome)
       IN  /\ SetInst(s)
           /\ cwr' = [cwr EXCEPT ![t] =
                         Ended(cwr[t], rt[t].outcome, s, connection_count)]
    /\ pc' = [pc EXCEPT ![t] = "idle"]
    /\ UNCHANGED <<rt, adapter, config, connection_count, scope, direct,
                   established, ops>>
    /\ UNCHANGED <<metricsVars, registryVars, probe, ownershipVars>>

EnterScope(form) ==
    [NoScope EXCEPT !.form = form, !.state = "entering",
                    !.pre_connected = connected, !.pre_count = connection_count]

\* connector.connection is the context manager of BaseConnector unless the
\* adapter has stored something else under that name: PostgreSQLConnector
\* keeps its psycopg2 connection, or None, in self.connection
ConnectionCallable(kind) == kind # "postgresql"

\* with connector.connection(): entry, up to the test of self._connected;
\* on an instance whose attribute connection is not the method, the call
\* raises TypeError and nothing is entered
EnterConnection(t) ==
    /\ pc[t] = "idle"
    /\ ops < MaxOps
    /\ ops' = ops + 1
    /\ IF ~ConnectionCallable(adapter)
       THEN /\ pc' = pc
            /\ scope' = [scope EXCEPT ![t] =
                   [EnterScope("connection") EXCEPT
                       !.state = "failed",
                       !.exit = Raise(Exc("TypeError", 0)),
                       !.post_connected = connected,
                       !.post_count = connection_count]]
            /\ Forget(t, {"rt", "cwr"})
       ELSE IF ~connected
       THEN /\ pc' = [pc EXCEPT ![t] = "conn_enter"]
            /\ rt' = [rt EXCEPT ![t] = WrapperStart(ConfigPolicy(config), "connect")]
            /\ cwr' = [cwr EXCEPT ![t] = Began("connect_with_retry")]
            /\ scope' = [scope EXCEPT ![t] = EnterScope("connection")]
       ELSE /\ pc' = [pc EXCEPT ![t] = "conn_yield"]
            /\ scope' = [scope EXCEPT ![t] = EnterScope("connection")]
            /\ Forget(t, {"rt", "cwr"})
    /\ Forget(t, {"direct"})
    /\ UNCHANGED <<adapter, config, connected, resource, authenticated,
                   connection_count, established>>
    /\ UNCHANGED <<metricsVars, registryVars, probe, ownershipVars>>

\* connection(): connect_with_retry() is past the counting:
\* self._connected = True, and it returns
ConnectionEntered(t) ==
    /\ PastCounting(t, "conn_enter", "conn_count")
    /\ rt[t].outcome.type = "return"
    /\ LET s == CwrMark(Inst, rt[t].outcome)
       IN  /\ SetInst(s)
           /\ cwr' = [cwr EXCEPT ![t] =
                         Ended(cwr[t], rt[t].outcome, s, connection_count)]
    /\ pc' = [pc EXCEPT ![t] = "conn_yield"]
    /\ UNCHANGED <<rt, adapter, config, connection_count, scope, direct,
                   established, ops>>
    /\ UNCHANGED <<metricsVars, registryVars, probe, ownershipVars>>

\* connection(): yield self; the enclosed work starts, on the instance as it
\* is by now
ConnectionYield(t) ==
    /\ pc[t] = "conn_yield"
    /\ scope' = [scope EXCEPT ![t].state = "body",
                              ![t].body_connected = connected]
    /\ pc' = [pc EXCEPT ![t] = "conn_body"]
    /\ UNCHANGED <<rt, adapter, config, connected, resource, authenticated,
                   connection_count, cwr, direct, established, ops>>
    /\ UNCHANGED <<metricsVars, registryVars, probe, ownershipVars>>

\* the scope of thread t is over: what its caller observes.  A scope that
\* never reached its enclosed work leaves with what connect_with_retry raised
ScopeOver(t, sc, disc, s) ==
    LET failed == sc.state \in {"entering", "failing"}
    IN  [sc EXCEPT !.state = IF failed THEN "failed" ELSE "exited",
                   !.teardown = disc,
                   !.exit = ScopeOutcome(IF failed THEN rt[t].outcome ELSE sc.work,
                                         [out |-> TeardownOutcome(sc.form, disc)]),
                   !.post_connected = s.connected,
                   !.post_count = connection_count]

\* connection(): connect_with_retry() raised; the except clause, and the
\* finally clause up to its test of self._connected
ConnectionEntryFailed(t) ==
    /\ pc[t] = "conn_enter"
    /\ rt[t].pc = "done"
    /\ rt[t].outcome.type = "raise"
    /\ cwr' = [cwr EXCEPT ![t] =
                  Ended(cwr[t], rt[t].outcome, Inst, connection_count)]
    /\ IF FinallyReleases(Inst)
       THEN /\ scope' = [scope EXCEPT ![t].state = "failing"]
            /\ pc' = [pc EXCEPT ![t] = "conn_fin"]
       ELSE /\ scope' = [scope EXCEPT ![t] = ScopeOver(t, @, NoOutcome, Inst)]
            /\ pc' = [pc EXCEPT ![t] = "idle"]
    /\ UNCHANGED <<rt, adapter, config, connected, resource, authenticated,
                   connection_count, direct, established, ops>>
    /\ UNCHANGED <<metricsVars, registryVars, probe, ownershipVars>>

\* the enclosed work of connection() ends; the except clause, and the
\* finally clause up to its test of self._connected
ConnectionExit(t) ==
    /\ pc[t] = "conn_body"
    /\ \E work \in WorkOutcomes :
         IF FinallyReleases(Inst)
         THEN /\ scope' = [scope EXCEPT ![t].state = "leaving", ![t].work = work]
              /\ pc' = [pc EXCEPT ![t] = "conn_fin"]
         ELSE /\ scope' = [scope EXCEPT ![t] =
                     ScopeOver(t, [@ EXCEPT !.work = work], NoOutcome, Inst)]
              /\ pc' = [pc EXCEPT ![t] = "idle"]
    /\ UNCHANGED <<rt, adapter, config, connected, resource, authenticated,
                   connection_count, cwr, direct, established, ops>>
    /\ UNCHANGED <<metricsVars, registryVars, probe, ownershipVars>>

\* disconnect() called by the teardown of the scope of thread t has ended
\* with r; after is where the teardown goes on when it returned
ScopeDisconnected(t, r, after) ==
    /\ SetInst(r.s)
    /\ IF r.out.type = "raise"
       THEN /\ scope' = [scope EXCEPT ![t] =
                   ScopeOver(t, [@ EXCEPT !.disconnects = 1], r.out, r.s)]
            /\ pc' = [pc EXCEPT ![t] = "idle"]
       ELSE /\ scope' = [scope EXCEPT ![t].disconnects = 1,
                                      ![t].teardown = r.out]
            /\ pc' = [pc EXCEPT ![t] = after]

\* the teardown of a scope calls self.disconnect(): in the finally clause of
\* connection() at pc before = "conn_fin", in __exit__ at "with_fin".
\* disconnect() runs to its end, or up to where it waits for the close of
\* the handle it found
ScopeDisconnect(t, before, closing, after) ==
    /\ pc[t] = before
    /\ IF DisconnectWaits(adapter, Inst)
       THEN /\ pc' = [pc EXCEPT ![t] = closing]
            /\ UNCHANGED <<connected, resource, authenticated, scope>>
       ELSE \E env \in DisconnectEnvs(adapter, Inst) :
               ScopeDisconnected(t, AdapterDisconnect(adapter, Inst, env), after)
    /\ UNCHANGED <<rt, adapter, config, connection_count, cwr, direct,
                   established, ops>>
    /\ UNCHANGED <<metricsVars, registryVars, probe, ownershipVars>>

\* the close ends: disconnect() goes on, on the instance as it is by now
ScopeClosed(t, closing, after) ==
    /\ pc[t] = closing
    /\ \E env \in CloseEnvs :
         ScopeDisconnected(t, AdapterDisconnectAnswer(adapter, Inst, env), after)
    /\ UNCHANGED <<rt, adapter, config, connection_count, cwr, direct,
                   established, ops>>
    /\ UNCHANGED <<metricsVars, registryVars, probe, ownershipVars>>

\* the teardown of a scope, after disconnect() returned:
\* self._connected = False, and out
ScopeMarkDisconnected(t, before) ==
    /\ pc[t] = before
    /\ connected' = FALSE
    /\ scope' = [scope EXCEPT ![t] =
           ScopeOver(t, @, scope[t].teardown, [Inst EXCEPT !.connected = FALSE])]
    /\ pc' = [pc EXCEPT ![t] = "idle"]
    /\ UNCHANGED <<rt, adapter, config, resource, authenticated,
                   connection_count, cwr, direct, established, ops>>
    /\ UNCHANGED <<metricsVars, registryVars, probe, ownershipVars>>

\* connection(), the finally clause: self.disconnect()
ConnectionRelease(t) == ScopeDisconnect(t, "conn_fin", "conn_close", "conn_mark")

\* connection(), the finally clause: the close inside disconnect() ends
ConnectionClosed(t) == ScopeClosed(t, "conn_close", "conn_mark")

\* connection(), the finally clause: self._connected = False
ConnectionReleased(t) == ScopeMarkDisconnected(t, "conn_mark")

\* with connector: __enter__ up to the first _connect()
EnterWith(t) ==
    /\ pc[t] = "idle"
    /\ ops < MaxOps
    /\ ops' = ops + 1
    /\ pc' = [pc EXCEPT ![t] = "with_enter"]
    /\ rt' = [rt EXCEPT ![t] = WrapperStart(ConfigPolicy(config), "connect")]
    /\ cwr' = [cwr EXCEPT ![t] = Began("connect_with_retry")]
    /\ scope' = [scope EXCEPT ![t] = EnterScope("with")]
    /\ Forget(t, {"direct"})
    /\ UNCHANGED <<adapter, config, connected, resource, authenticated,
                   connection_count, established>>
    /\ UNCHANGED <<metricsVars, registryVars, probe, ownershipVars>>

\* __enter__: connect_with_retry() returned, return self
WithEntered(t) ==
    /\ PastCounting(t, "with_enter", "with_count")
    /\ rt[t].outcome.type = "return"
    /\ LET s == CwrMark(Inst, rt[t].outcome)
       IN  /\ SetInst(s)
           /\ cwr' = [cwr EXCEPT ![t] =
                         Ended(cwr[t], rt[t].outcome, s, connection_count)]
           /\ scope' = [scope EXCEPT ![t].state = "body",
                                     ![t].body_connected = s.connected]
    /\ pc' = [pc EXCEPT ![t] = "with_body"]
    /\ UNCHANGED <<rt, adapter, config, connection_count, direct, established,
                   ops>>
    /\ UNCHANGED <<metricsVars, registryVars, probe, ownershipVars>>

\* __enter__: connect_with_retry() raised; __exit__ is not called
WithEntryFailed(t) ==
    /\ pc[t] = "with_enter"
    /\ rt[t].pc = "done"
    /\ rt[t].outcome.type = "raise"
    /\ cwr' = [cwr EXCEPT ![t] =
                  Ended(cwr[t], rt[t].outcome, Inst, connection_count)]
    /\ scope' = [scope EXCEPT ![t].state = "failed",
                              ![t].exit = rt[t].outcome,
                              ![t].post_connected = connected,
                              ![t].post_count = connection_count]
    /\ pc' = [pc EXCEPT ![t] = "idle"]
    /\ UNCHANGED <<rt, adapter, config, connected, resource, authenticated,
                   connection_count, direct, established, ops>>
    /\ UNCHANGED <<metricsVars, registryVars, probe, ownershipVars>>

\* the enclosed work of `with connector:` ends; __exit__ up to its test of
\* self._connected
WithExit(t) ==
    /\ pc[t] = "with_body"
    /\ \E work \in WorkOutcomes :
         IF connected
         THEN /\ scope' = [scope EXCEPT ![t].state = "leaving", ![t].work = work]
              /\ pc' = [pc EXCEPT ![t] = "with_fin"]
         ELSE /\ scope' = [scope EXCEPT ![t] =
                     ScopeOver(t, [@ EXCEPT !.work = work], NoOutcome, Inst)]
              /\ pc' = [pc EXCEPT ![t] = "idle"]
    /\ UNCHANGED <<rt, adapter, config, connected, resource, authenticated,
                   connection_count, cwr, direct, established, ops>>
    /\ UNCHANGED <<metricsVars, registryVars, probe, ownershipVars>>

\* __exit__: self.disconnect()
WithRelease(t) == ScopeDisconnect(t, "with_fin", "with_close", "with_mark")

\* __exit__: the close inside disconnect() ends
WithClosed(t) == ScopeClosed(t, "with_close", "with_mark")

\* __exit__: self._connected = False
WithReleased(t) == ScopeMarkDisconnected(t, "with_mark")

\* the retry steps inside connect_with_retry
ConnectRetrySleep(t) == rt[t].func = "connect" /\ RetrySleep(t)
ConnectRetrySleepInterrupted(t) == rt[t].func = "connect" /\ RetrySleepInterrupted(t)

Next ==
    \/ CallConnect(MainThread)
    \/ CallDisconnect(MainThread)
    \/ CallConnectWithRetry(MainThread)
    \/ RetryInvokeConnect(MainThread)
    \/ RetryConnectAnswered(MainThread)
    \/ ConnectRetrySleep(MainThread)
    \/ ConnectRetrySleepInterrupted(MainThread)
    \/ CountConnectionRead(MainThread)
    \/ IncrementWrite(MainThread)
    \/ ConnectWithRetryFinish(MainThread)
    \/ EnterConnection(MainThread)
    \/ ConnectionEntered(MainThread)
    \/ ConnectionYield(MainThread)
    \/ ConnectionEntryFailed(MainThread)
    \/ ConnectionExit(MainThread)
    \/ ConnectionRelease(MainThread)
    \/ ConnectionClosed(MainThread)
    \/ ConnectionReleased(MainThread)
    \/ EnterWith(MainThread)
    \/ WithEntered(MainThread)
    \/ WithEntryFailed(MainThread)
    \/ WithExit(MainThread)
    \/ WithRelease(MainThread)
    \/ WithClosed(MainThread)
    \/ WithReleased(MainThread)

Spec == Init /\ [][Next]_vars

----------------------------------------------------------------------------
(* Metrics collector and execute_with_metrics, called by thread t *)

\* self.metrics is a MetricsCollector unless the config disables it
HasMetrics_Always(cfg) == TRUE

\* BaseConnector.__init__: if config.get('metrics_enabled', True)
HasMetrics(cfg) == cfg.metrics_enabled

\* faulty variant: end_operation updates the aggregate without the lock
EndOperationLock_Missing(l) == TRUE

\* end_operation: with self._lock
EndOperationLock(l) == Acquirable(l)

\* faulty variant: get_metrics copies the aggregate without the lock
GetMetricsLock_Missing(l) == TRUE

\* get_metrics: with self._lock
GetMetricsLock(l) == Acquirable(l)

\* faulty variant: reset_metrics replaces the aggregate without the lock
ResetLock_Missing(l) == TRUE

\* reset_metrics: with self._lock
ResetLock(l) == Acquirable(l)

Aggregate ==
    [operations |-> operations, connection_count |-> connection_count,
     successful_operations |-> successful_operations,
     failed_operations |-> failed_operations,
     total_duration |-> total_duration]

SetAggregate(a) ==
    /\ operations' = a.operations
    /\ connection_count' = a.connection_count
    /\ successful_operations' = a.successful_operations
    /\ failed_operations' = a.failed_operations
    /\ total_duration' = a.total_duration

AggregateView == ViewOf(heap, Aggregate)

\* faulty variant: the operation is counted when it starts
StartOperation_Counts(h, a, name, now) ==
    [heap |-> Append(h, NewMetric(name, now)), metric |-> Len(h) + 1,
     agg |-> [a EXCEPT !.operations = Append(@, Len(h) + 1),
                       !.successful_operations = @ + 1]]

\* MetricsCollector.start_operation: a new metric, the aggregate untouched
StartOperation(h, a, name, now) ==
    [heap |-> Append(h, NewMetric(name, now)), metric |-> Len(h) + 1, agg |-> a]

\* end_operation: metric.end_time, metric.success, metric.error_message
EndFields(m, success, error_message, now) ==
    [m EXCEPT !.end_time = <<now>>, !.success = success,
              !.error_message = error_message]

\* faulty variant: the failure is recorded and not raised again
ExecHandler_Swallow(out) ==
    IF out.type = "return"
    THEN [ended |-> TRUE, success |-> TRUE, error_message |-> <<>>, outcome |-> out]
    ELSE IF Caught(out.exc.cls, {"Exception"})
    THEN [ended |-> TRUE, success |-> FALSE, error_message |-> <<out.exc.cls>>,
          outcome |-> Return("None")]
    ELSE [ended |-> FALSE, success |-> FALSE, error_message |-> <<>>, outcome |-> out]

\* execute_with_metrics: the try / except Exception around func; the error
\* message str(e) is represented by the class of e
ExecHandler(out) ==
    IF out.type = "return"
    THEN [ended |-> TRUE, success |-> TRUE, error_message |-> <<>>, outcome |-> out]
    ELSE IF Caught(out.exc.cls, {"Exception"})
    THEN [ended |-> TRUE, success |-> FALSE, error_message |-> <<out.exc.cls>>,
          outcome |-> out]
    ELSE [ended |-> FALSE, success |-> FALSE, error_message |-> <<>>, outcome |-> out]

\* what the operation handed to execute_with_metrics can do
ExecOutcomes ==
    {Return("result"), Raise(Exc("ConnectionError", 1)),
     Raise(Exc("KeyboardInterrupt", 1))}

\* ConnectorMetrics.success_rate, as a fraction
SuccessRate(a) ==
    LET total == a.successful_operations + a.failed_operations
    IN  IF total = 0 THEN [num |-> 0, den |-> 1]
        ELSE [num |-> a.successful_operations, den |-> total]

RECURSIVE SumDurations(_)
SumDurations(ms) ==
    IF ms = <<>> THEN 0 ELSE Duration(Head(ms))[1] + SumDurations(Tail(ms))

\* ConnectorMetrics.average_duration, the test of the list comprehension:
\* op.duration is not None
IsCompleted(m) == Duration(m) # <<>>

\* ConnectorMetrics.average_duration, as a fraction: 0.0 without completed
\* operations, else sum(...) / len(completed_ops)
AverageDuration(sum, n) ==
    IF n = 0 THEN [num |-> 0, den |-> 1] ELSE [num |-> sum, den |-> n]

\* BaseConnector.get_metrics_summary, given the copy a that get_metrics
\* returned and the average computed from the metrics of its list
MetricsSummary(name, a, average) ==
    [connector_name |-> name, total_operations |-> Len(a.operations),
     success_rate |-> SuccessRate(a), average_duration |-> average,
     total_connections |-> a.connection_count, metrics_enabled |-> TRUE]

\* get_metrics_summary when self.metrics is None
SummaryDisabled == [metrics_enabled |-> FALSE]

\* entry of a call into the metrics API: a fresh frame; what the aggregate
\* was at entry is kept for the calls of the main thread
BeginCall(t, op) ==
    [IdleCall EXCEPT !.op = op,
                     !.pre = IF t = MainThread THEN AggregateView ELSE @]

RECURSIVE SumOver(_, _)
SumOver(f, S) ==
    IF S = {} THEN 0
    ELSE LET x == CHOOSE y \in S : TRUE IN f[x] + SumOver(f, S \ {x})

CallsBegun == SumOver([t \in Threads |-> calls[t].begun], Threads)

CanCall(t) ==
    /\ mx[t].pc = "idle"
    /\ pc[t] = "idle"
    /\ rt[t].pc = "idle"
    /\ CallsBegun < MaxCalls

Begun(t) == [calls EXCEPT ![t].begun = @ + 1]

\* the caller lets go of the copy it was handed by an earlier get_metrics
Dropped(t) == [snap EXCEPT ![t] = <<>>]

\* execute_with_metrics(name, func) up to the call of func
CallExecuteWithMetrics(t) ==
    /\ CanCall(t)
    /\ calls' = Begun(t)
    /\ IF ~HasMetrics(config)
       THEN /\ mx' = [mx EXCEPT ![t] =
                        [BeginCall(t, "execute_with_metrics") EXCEPT !.pc = "func"]]
            /\ UNCHANGED <<heap, operations, connection_count,
                           successful_operations, failed_operations,
                           total_duration>>
       ELSE LET r == StartOperation(heap, Aggregate, "op", clock)
            IN  /\ heap' = r.heap
                /\ SetAggregate(r.agg)
                /\ mx' = [mx EXCEPT ![t] =
                            [BeginCall(t, "execute_with_metrics") EXCEPT
                                !.pc = "func", !.metric = r.metric,
                                !.collector_calls = 1]]
    /\ UNCHANGED <<lock, clock>>
    /\ snap' = Dropped(t)
    /\ UNCHANGED <<instanceVars, registryVars, probe, ownershipVars>>

\* func(*args, **kwargs) runs (one tick) and returns or raises; without a
\* collector, or with a failure the except clause does not catch, that is
\* the outcome of execute_with_metrics
ExecuteFunc(t) ==
    /\ mx[t].pc = "func"
    /\ clock' = clock + 1
    /\ \E out \in ExecOutcomes :
         IF mx[t].metric = 0
         THEN /\ mx' = [mx EXCEPT ![t].pc = "idle", ![t].func = out,
                                  ![t].outcome = out]
              /\ calls' = [calls EXCEPT ![t].ok =
                              IF out.type = "return" THEN @ + 1 ELSE @]
         ELSE LET h == ExecHandler(out)
              IN  IF h.ended
                  THEN /\ mx' = [mx EXCEPT ![t].pc = "end_fields", ![t].func = out,
                                           ![t].pending = h.outcome]
                       /\ UNCHANGED calls
                  ELSE /\ mx' = [mx EXCEPT ![t].pc = "idle", ![t].func = out,
                                           ![t].outcome = h.outcome]
                       /\ UNCHANGED calls
    /\ UNCHANGED <<heap, operations, connection_count, successful_operations,
                   failed_operations, total_duration, lock, snap>>
    /\ UNCHANGED <<instanceVars, registryVars, probe, ownershipVars>>

\* end_operation(metric, success, error_message) up to its lock, on a metric
\* no other caller has a reference to yet: end_time is the time of this
\* step, success and error_message are those of func
ExecuteEndFields(t) ==
    /\ mx[t].pc = "end_fields"
    /\ LET h == ExecHandler(mx[t].func)
       IN  heap' = [heap EXCEPT ![mx[t].metric] =
                       EndFields(@, h.success, h.error_message, clock)]
    /\ mx' = [mx EXCEPT ![t].pc = "append", ![t].collector_calls = @ + 1]
    /\ UNCHANGED <<operations, connection_count, successful_operations,
                   failed_operations, total_duration, lock, clock, snap, calls>>
    /\ UNCHANGED <<instanceVars, registryVars, probe, ownershipVars>>

\* end_operation: the lock is taken; add_operation: the metric is appended,
\* its success flag tested and the counter of `+= 1` read
EndOperationAppend(t) ==
    /\ mx[t].pc = "append"
    /\ EndOperationLock(lock)
    /\ lock' = t
    /\ operations' = Append(operations, mx[t].metric)
    /\ mx' = [mx EXCEPT ![t].pc = "count_write",
                        ![t].counted = heap[mx[t].metric].success,
                        ![t].tmp = IF heap[mx[t].metric].success
                                   THEN successful_operations
                                   ELSE failed_operations]
    /\ UNCHANGED <<heap, connection_count, successful_operations,
                   failed_operations, total_duration, clock, snap, calls>>
    /\ UNCHANGED <<instanceVars, registryVars, probe, ownershipVars>>

\* add_operation: the counter is written, total_duration grows; the lock is
\* released and execute_with_metrics hands the outcome to its caller
EndOperationCountWrite(t) ==
    /\ mx[t].pc = "count_write"
    /\ LET m == heap[mx[t].metric]
           a == [Aggregate EXCEPT
                   !.successful_operations = IF mx[t].counted THEN mx[t].tmp + 1 ELSE @,
                   !.failed_operations = IF mx[t].counted THEN @ ELSE mx[t].tmp + 1,
                   !.total_duration = IF Duration(m) # <<>>
                                      THEN @ + Duration(m)[1] ELSE @]
       IN  /\ SetAggregate(a)
           /\ mx' = [mx EXCEPT ![t].pc = "idle", ![t].outcome = mx[t].pending]
           /\ calls' = [calls EXCEPT ![t].ok =
                           IF mx[t].pending.type = "return" THEN @ + 1 ELSE @]
    /\ lock' = "none"
    /\ UNCHANGED <<heap, clock, snap>>
    /\ UNCHANGED <<instanceVars, registryVars, probe, ownershipVars>>

\* metrics.start_operation(name) by a caller that never ends the operation
CallStartOperation(t) ==
    /\ CanCall(t)
    /\ HasMetrics(config)
    /\ calls' = Begun(t)
    /\ LET r == StartOperation(heap, Aggregate, "op", clock)
       IN  /\ heap' = r.heap
           /\ SetAggregate(r.agg)
           /\ mx' = [mx EXCEPT ![t] =
                       [BeginCall(t, "start_operation") EXCEPT
                           !.metric = r.metric, !.collector_calls = 1]]
    /\ UNCHANGED <<lock, clock>>
    /\ snap' = Dropped(t)
    /\ UNCHANGED <<instanceVars, registryVars, probe, ownershipVars>>

\* increment_connection_count: the lock is taken, the counter of `+= 1` read
IncrementRead(t) ==
    /\ CanCall(t)
    /\ HasMetrics(config)
    /\ IncrementLock(lock)
    /\ lock' = t
    /\ calls' = Begun(t)
    /\ mx' = [mx EXCEPT ![t] =
                [BeginCall(t, "increment_connection_count") EXCEPT
                    !.pc = "incr_write", !.tmp = connection_count,
                    !.collector_calls = 1]]
    /\ UNCHANGED <<heap, operations, connection_count, successful_operations,
                   failed_operations, total_duration, clock>>
    /\ snap' = Dropped(t)
    /\ UNCHANGED <<instanceVars, registryVars, probe, ownershipVars>>

\* reset_metrics: self.metrics = ConnectorMetrics(self.connector_name)
ResetMetrics(t) ==
    /\ CanCall(t)
    /\ HasMetrics(config)
    /\ ResetLock(lock)
    /\ calls' = Begun(t)
    /\ SetAggregate(EmptyAggregate)
    /\ mx' = [mx EXCEPT ![t] =
                [BeginCall(t, "reset_metrics") EXCEPT
                    !.outcome = Return("None"), !.collector_calls = 1]]
    /\ UNCHANGED <<heap, lock, clock>>
    /\ snap' = Dropped(t)
    /\ UNCHANGED <<instanceVars, registryVars, probe, ownershipVars>>

\* get_metrics, called directly or by get_metrics_summary: the lock is taken,
\* self.metrics.operations.copy()
GetMetricsCopy(t) ==
    /\ CanCall(t)
    /\ HasMetrics(config)
    /\ GetMetricsLock(lock)
    /\ lock' = t
    /\ calls' = Begun(t)
    /\ \E op \in {"get_metrics", "get_metrics_summary"} :
         mx' = [mx EXCEPT ![t] =
                  [BeginCall(t, op) EXCEPT !.pc = "snap_counters",
                                        !.copy = operations,
                                        !.collector_calls = 1]]
    /\ UNCHANGED <<heap, operations, connection_count, successful_operations,
                   failed_operations, total_duration, clock>>
    /\ snap' = Dropped(t)
    /\ UNCHANGED <<instanceVars, registryVars, probe, ownershipVars>>

\* get_metrics: the counters are read, the lock is released, the copy
\* returned: to the caller, or to get_metrics_summary, which keeps it in a
\* local and hands nothing but the summary to its caller
GetMetricsReturn(t) ==
    /\ mx[t].pc = "snap_counters"
    /\ LET s == [Aggregate EXCEPT !.operations = mx[t].copy]
       IN  IF mx[t].op = "get_metrics_summary"
           THEN /\ snap' = snap
                /\ mx' = [mx EXCEPT ![t].pc = "summary", ![t].local = <<s>>]
           ELSE /\ snap' = [snap EXCEPT ![t] = <<s>>]
                /\ mx' = [mx EXCEPT ![t].pc = "idle",
                                    ![t].outcome = Return("None")]
    /\ lock' = "none"
    /\ UNCHANGED <<heap, operations, connection_count, successful_operations,
                   failed_operations, total_duration, clock, calls>>
    /\ UNCHANGED <<instanceVars, registryVars, probe, ownershipVars>>

\* get_metrics_summary after get_metrics() returned, metrics.average_duration
\* on the copy: the list comprehension comes to the next metric of the list,
\* one of the collector's metric objects, and reads its duration as it is
\* now, without the lock
SummaryFilter(t) ==
    /\ mx[t].pc = "summary"
    /\ mx[t].pos < Len(mx[t].local[1].operations)
    /\ LET copied == mx[t].local[1].operations
           id == copied[mx[t].pos + 1]
           last == mx[t].pos + 1 = Len(copied)
       IN  mx' = [mx EXCEPT
              ![t].completed_ops = IF IsCompleted(heap[id]) THEN Append(@, id) ELSE @,
              ![t].pos = IF last THEN 0 ELSE @ + 1,
              ![t].pc = IF last THEN "summary_sum" ELSE @]
    /\ UNCHANGED <<heap, operations, connection_count, successful_operations,
                   failed_operations, total_duration, lock, clock, snap, calls>>
    /\ UNCHANGED <<instanceVars, registryVars, probe, ownershipVars>>

\* average_duration: sum(op.duration for op in completed_ops) comes to the
\* next metric and reads its duration again; a duration that is None by now
\* cannot be added
SummarySum(t) ==
    /\ mx[t].pc = "summary_sum"
    /\ mx[t].pos < Len(mx[t].completed_ops)
    /\ LET m == heap[mx[t].completed_ops[mx[t].pos + 1]]
       IN  IF IsCompleted(m)
           THEN mx' = [mx EXCEPT ![t].sum = @ + Duration(m)[1], ![t].pos = @ + 1]
           ELSE mx' = [mx EXCEPT ![t].pc = "idle", ![t].local = <<>>,
                                 ![t].outcome = Raise(Exc("TypeError", 0))]
    /\ UNCHANGED <<heap, operations, connection_count, successful_operations,
                   failed_operations, total_duration, lock, clock, snap, calls>>
    /\ UNCHANGED <<instanceVars, registryVars, probe, ownershipVars>>

\* get_metrics_summary: the average is there (0.0 for an empty list or no
\* completed operation), the rest of the dict is read from the copy and the
\* summary returned
SummaryReturn(t) ==
    /\ \/ mx[t].pc = "summary" /\ mx[t].local[1].operations = <<>>
       \/ mx[t].pc = "summary_sum" /\ mx[t].pos = Len(mx[t].completed_ops)
    /\ mx' = [mx EXCEPT
           ![t].pc = "idle", ![t].outcome = Return("None"), ![t].local = <<>>,
           ![t].pos = 0, ![t].completed_ops = <<>>, ![t].sum = 0,
           ![t].summary = <<MetricsSummary(adapter, mx[t].local[1],
                               AverageDuration(mx[t].sum,
                                               Len(mx[t].completed_ops)))>>]
    /\ UNCHANGED <<heap, operations, connection_count, successful_operations,
                   failed_operations, total_duration, lock, clock, snap, calls>>
    /\ UNCHANGED <<instanceVars, registryVars, probe, ownershipVars>>

\* get_metrics_summary on an instance without metrics
GetMetricsSummaryDisabled(t) ==
    /\ CanCall(t)
    /\ ~HasMetrics(config)
    /\ calls' = Begun(t)
    /\ mx' = [mx EXCEPT ![t] =
                [BeginCall(t, "get_metrics_summary") EXCEPT
                    !.outcome = Return("None"),
                    !.summary = <<SummaryDisabled>>]]
    /\ UNCHANGED <<heap, operations, connection_count, successful_operations,
                   failed_operations, total_duration, lock, clock>>
    /\ snap' = Dropped(t)
    /\ UNCHANGED <<instanceVars, registryVars, probe, ownershipVars>>

\* what a caller can change on the copy it holds: a counter of the copy, the
\* list of the copy, a metric found in the list
SnapshotMutations == {"counter", "list", "metric"}

\* the caller of get_metrics changes the ConnectorMetrics it was handed; the
\* metrics in its list are the objects of the collector's list
MutateSnapshot(t) ==
    /\ CanCall(t)
    /\ snap[t] # <<>>
    /\ calls' = Begun(t)
    /\ \E kind \in SnapshotMutations :
         LET s == snap[t][1]
         IN  CASE kind = "counter" ->
                    /\ snap' = [snap EXCEPT ![t] =
                                  <<[s EXCEPT !.successful_operations = @ + 1]>>]
                    /\ heap' = heap
               [] kind = "list" ->
                    /\ snap' = [snap EXCEPT ![t] = <<[s EXCEPT !.operations = <<>>]>>]
                    /\ heap' = heap
               [] OTHER ->
                    /\ s.operations # <<>>
                    /\ heap' = [heap EXCEPT ![s.operations[1]].success = ~@,
                                            ![s.operations[1]].end_time = <<>>]
                    /\ snap' = snap
    /\ mx' = [mx EXCEPT ![t] =
                [BeginCall(t, "mutate_snapshot") EXCEPT
                    !.outcome = Return("None")]]
    /\ UNCHANGED <<operations, connection_count, successful_operations,
                   failed_operations, total_duration, lock, clock>>
    /\ UNCHANGED <<instanceVars, registryVars, probe, ownershipVars>>

\* a mock instance whose metrics API is used; the lifecycle is left alone
InitMetrics ==
    /\ Init
    /\ adapter = "mock"
    /\ config.retry = [max_attempts |-> 3, backoff_factor |-> 2,
                       initial_delay |-> 1, max_delay |-> 600]

\* the metrics API used from one thread
NextMetrics ==
    \/ CallExecuteWithMetrics(MainThread)
    \/ ExecuteFunc(MainThread)
    \/ ExecuteEndFields(MainThread)
    \/ EndOperationAppend(MainThread)
    \/ EndOperationCountWrite(MainThread)
    \/ CallStartOperation(MainThread)
    \/ IncrementRead(MainThread)
    \/ IncrementWrite(MainThread)
    \/ ResetMetrics(MainThread)
    \/ GetMetricsCopy(MainThread)
    \/ GetMetricsReturn(MainThread)
    \/ SummaryFilter(MainThread)
    \/ SummarySum(MainThread)
    \/ SummaryReturn(MainThread)
    \/ GetMetricsSummaryDisabled(MainThread)
    \/ MutateSnapshot(MainThread)

SpecMetrics == InitMetrics /\ [][NextMetrics]_vars

\* the collector used from several threads at once
InitThreads ==
    /\ InitMetrics
    /\ config.metrics_enabled

NextThreads ==
    \E t \in Threads :
        \/ CallExecuteWithMetrics(t)
        \/ ExecuteFunc(t)
        \/ ExecuteEndFields(t)
        \/ EndOperationAppend(t)
        \/ EndOperationCountWrite(t)
        \/ IncrementRead(t)
        \/ IncrementWrite(t)
        \/ ResetMetrics(t)
        \/ GetMetricsCopy(t)
        \/ GetMetricsReturn(t)
        \/ SummaryFilter(t)
        \/ SummarySum(t)
        \/ SummaryReturn(t)

SpecThreads == InitThreads /\ [][NextThreads]_vars

----------------------------------------------------------------------------
(* Registry: connectors/registry.py ConnectorRegistry.  A dict is the       *)
(* sequence of its [key, value] items in insertion order.                   *)

DictHas(d, k) == \E i \in 1 .. Len(d) : d[i].key = k

DictGet(d, k) == d[CHOOSE i \in 1 .. Len(d) : d[i].key = k].value

\* d[k] = v: an existing key keeps its place
DictSet(d, k, v) ==
    IF DictHas(d, k)
    THEN [i \in 1 .. Len(d) |->
             IF d[i].key = k THEN [key |-> k, value |-> v] ELSE d[i]]
    ELSE Append(d, [key |-> k, value |-> v])

\* del d[k]
DictDel(d, k) == SelectSeq(d, LAMBDA e : e.key # k)

\* list(d.keys())
DictKeys(d) == [i \in 1 .. Len(d) |-> d[i].key]

\* names used as type keys and as instance names
Names == {"a", "b"}

\* the connector classes that can be handed to register; StubConnector is a
\* class of the caller that implements the abstract methods of BaseConnector
\* as MockConnector does, with a disconnect() that raises when the release
\* of its handle fails
ConnectorClasses ==
    {"MockConnector", "PostgreSQLConnector", "TwitterConnector", "StubConnector"}

\* what register can be handed: a connector class, a class that does not
\* derive from BaseConnector, or an object that is not a class (a factory
\* function, an instance, None)
Descriptors == ConnectorClasses \cup {"InvalidConnector", "function"}

IsClass(d) == d # "function"

\* the bases named in the class statements
ClassParent(c) ==
    CASE c = "MockConnector"       -> "BaseConnector"
      [] c = "StubConnector"       -> "BaseConnector"
      [] c = "PostgreSQLConnector" -> "DatabaseConnector"
      [] c = "DatabaseConnector"   -> "BaseConnector"
      [] c = "SMTPConnector"       -> "MessagingConnector"
      [] c = "MessagingConnector"  -> "BaseConnector"
      [] c = "TwitterConnector"    -> "SocialMediaConnector"
      [] c = "SocialMediaConnector" -> "BaseConnector"
      [] OTHER                     -> "object"

RECURSIVE IsSubclassOf(_, _)
IsSubclassOf(c, d) ==
    IF c = d THEN TRUE
    ELSE IF c = "object" THEN FALSE
    ELSE IsSubclassOf(ClassParent(c), d)

\* the lifecycle methods an object of the class runs
KindOf(cls) ==
    CASE cls = "MockConnector"       -> "mock"
      [] cls = "PostgreSQLConnector" -> "postgresql"
      [] cls = "SMTPConnector"       -> "smtp"
      [] OTHER                       -> "twitter"

\* an implementation of the abstract disconnect() that lets the failure of
\* the release out
StubDisconnect(s, env) ==
    IF env = "close_error"
    THEN [s |-> s, out |-> Raise(Exc("OSError", 0))]
    ELSE [s |-> [s EXCEPT !.connected = FALSE], out |-> Return("None")]

\* instance.connect() of an object of the class
ObjectConnectBody(cls, s, env, n) ==
    IF cls = "StubConnector" THEN MockConnect(s, env, n)
    ELSE AdapterConnect(KindOf(cls), s, env, n)

\* instance.disconnect() of an object of the class
ObjectDisconnect(cls, s, env) ==
    IF cls = "StubConnector" THEN StubDisconnect(s, env)
    ELSE AdapterDisconnect(KindOf(cls), s, env)

\* ConnectorRegistry.register; issubclass raises TypeError when its first
\* argument is not a class
RegistryRegister(c, name, d) ==
    IF ~IsClass(d)
    THEN [connectors |-> c, out |-> Raise(Exc("TypeError", 0))]
    ELSE IF ~IsSubclassOf(d, "BaseConnector")
    THEN [connectors |-> c, out |-> Raise(Exc("ConfigurationError", 0))]
    ELSE [connectors |-> DictSet(c, name, d), out |-> Return("None")]

\* BaseConnector.__init__ fails on a config whose log_level names no level
\* of the logging module: getattr(logging, log_level) raises AttributeError
BaseInit(cfg) ==
    IF cfg = "bad_log_level" THEN Raise(Exc("AttributeError", 0))
    ELSE Return("None")

\* connector_class(config, connector_name=name): the constructors;
\* type_key notes the key the object was created from
Construct(cls, cfg, name) ==
    LET obj == [cls |-> cls, connector_name |-> name, connected |-> FALSE,
                resource |-> "none", authenticated |-> FALSE,
                type_key |-> "none"]
    IN  CASE cls \in {"MockConnector", "StubConnector"} ->
               [obj |-> obj, out |-> BaseInit(cfg)]
          [] cls \in {"PostgreSQLConnector", "SMTPConnector"} ->
               IF BaseInit(cfg).type = "raise"
               THEN [obj |-> obj, out |-> BaseInit(cfg)]
               ELSE IF cfg = "valid"
               THEN [obj |-> obj, out |-> Return("None")]
               ELSE [obj |-> obj, out |-> Raise(Exc("ConfigurationError", 0))]
          [] OTHER -> [obj |-> obj, out |-> Raise(Exc("TypeError", 0))]

\* ConnectorRegistry.unregister; env is what the release of the instance's
\* handle does
RegistryUnregister(c, ins, objs, name, env) ==
    LET c1 == IF DictHas(c, name) THEN DictDel(c, name) ELSE c
    IN  IF ~DictHas(ins, name)
        THEN [connectors |-> c1, instances |-> ins, objects |-> objs,
              out |-> Return("None"), disconnected |-> <<>>]
        ELSE LET id == DictGet(ins, name)
             IN  IF ~objs[id].connected
                 THEN [connectors |-> c1, instances |-> DictDel(ins, name),
                       objects |-> objs, out |-> Return("None"),
                       disconnected |-> <<>>]
                 ELSE LET r == ObjectDisconnect(objs[id].cls, objs[id], env)
                      IN  [connectors |-> c1,
                           instances |-> IF r.out.type = "raise" THEN ins
                                         ELSE DictDel(ins, name),
                           objects |-> [objs EXCEPT ![id] = r.s],
                           out |-> IF r.out.type = "raise" THEN r.out
                                   ELSE Return("None"),
                           disconnected |-> <<id>>]

\* faulty variant: the message does not list the registered names
RegistryGetConnectorClass_ListsNothing(c, name) ==
    IF ~DictHas(c, name)
    THEN [out |-> Raise(Exc("ConfigurationError", 0)), listed |-> <<>>]
    ELSE [out |-> Return(DictGet(c, name)), listed |-> <<>>]

\* ConnectorRegistry.get_connector_class
RegistryGetConnectorClass(c, name) ==
    IF ~DictHas(c, name)
    THEN [out |-> Raise(Exc("ConfigurationError", 0)), listed |-> DictKeys(c)]
    ELSE [out |-> Return(DictGet(c, name)), listed |-> <<>>]

\* faulty variant: an instance already stored under the name is disconnected
RegistryCreateConnector_DisconnectsPrior(c, ins, objs, name, cfg, instance_name) ==
    LET g == RegistryGetConnectorClass(c, name)
    IN  IF g.out.type = "raise"
        THEN [instances |-> ins, objects |-> objs, out |-> g.out,
              listed |-> g.listed, built |-> 0]
        ELSE LET made == Construct(g.out.value, cfg,
                                   IF instance_name # <<>>
                                   THEN instance_name[1] ELSE name)
                 id == Len(objs) + 1
                 released == IF instance_name # <<>> /\ DictHas(ins, instance_name[1])
                             THEN [objs EXCEPT ![DictGet(ins, instance_name[1])].connected = FALSE]
                             ELSE objs
             IN  IF made.out.type = "raise"
                 THEN [instances |-> ins, objects |-> objs, out |-> made.out,
                       listed |-> <<>>, built |-> 0]
                 ELSE [instances |-> IF instance_name # <<>>
                                     THEN DictSet(ins, instance_name[1], id)
                                     ELSE ins,
                       objects |-> Append(released, [made.obj EXCEPT !.type_key = name]),
                       out |-> Return("instance"), listed |-> <<>>,
                       built |-> id]

\* ConnectorRegistry.create_connector; instance_name is an Optional
RegistryCreateConnector(c, ins, objs, name, cfg, instance_name) ==
    LET g == RegistryGetConnectorClass(c, name)
    IN  IF g.out.type = "raise"
        THEN [instances |-> ins, objects |-> objs, out |-> g.out,
              listed |-> g.listed, built |-> 0]
        ELSE LET made == Construct(g.out.value, cfg,
                                   IF instance_name # <<>>
                                   THEN instance_name[1] ELSE name)
                 id == Len(objs) + 1
             IN  IF made.out.type = "raise"
                 THEN [instances |-> ins, objects |-> objs, out |-> made.out,
                       listed |-> <<>>, built |-> 0]
                 ELSE [instances |-> IF instance_name # <<>>
                                     THEN DictSet(ins, instance_name[1], id)
                                     ELSE ins,
                       objects |-> Append(objs, [made.obj EXCEPT !.type_key = name]),
                       out |-> Return("instance"), listed |-> <<>>,
                       built |-> id]

\* faulty variant: the first instance of the table is returned
RegistryGetInstance_First(ins, name) ==
    IF ~DictHas(ins, name)
    THEN [out |-> Raise(Exc("ConfigurationError", 0)), listed |-> DictKeys(ins),
          built |-> 0]
    ELSE [out |-> Return("instance"), listed |-> <<>>, built |-> ins[1].value]

\* ConnectorRegistry.get_instance
RegistryGetInstance(ins, name) ==
    IF ~DictHas(ins, name)
    THEN [out |-> Raise(Exc("ConfigurationError", 0)), listed |-> DictKeys(ins),
          built |-> 0]
    ELSE [out |-> Return("instance"), listed |-> <<>>,
          built |-> DictGet(ins, name)]

\* faulty variant: the loop ends at the first disconnect that fails
RECURSIVE CleanupLoop_StopAtFailure(_, _, _, _)
CleanupLoop_StopAtFailure(items, objs, fails, done) ==
    IF items = <<>> THEN [objects |-> objs, disconnected |-> done]
    ELSE LET id == Head(items).value
         IN  IF ~objs[id].connected
             THEN CleanupLoop_StopAtFailure(Tail(items), objs, fails, done)
             ELSE LET r == ObjectDisconnect(objs[id].cls, objs[id],
                               IF id \in fails THEN "close_error" ELSE "ok")
                  IN  IF r.out.type = "raise"
                      THEN [objects |-> [objs EXCEPT ![id] = r.s],
                            disconnected |-> Append(done, id)]
                      ELSE CleanupLoop_StopAtFailure(Tail(items),
                               [objs EXCEPT ![id] = r.s], fails, Append(done, id))

\* cleanup_instances: the loop over list(self._instances.items()); fails is
\* the set of objects whose release fails
RECURSIVE CleanupLoop(_, _, _, _)
CleanupLoop(items, objs, fails, done) ==
    IF items = <<>> THEN [objects |-> objs, disconnected |-> done]
    ELSE LET id == Head(items).value
         IN  IF ~objs[id].connected
             THEN CleanupLoop(Tail(items), objs, fails, done)
             ELSE LET r == ObjectDisconnect(objs[id].cls, objs[id],
                               IF id \in fails THEN "close_error" ELSE "ok")
                  IN  CleanupLoop(Tail(items), [objs EXCEPT ![id] = r.s], fails,
                                  Append(done, id))

\* ConnectorRegistry.cleanup_instances
RegistryCleanup(ins, objs, fails) ==
    LET l == CleanupLoop(ins, objs, fails, <<>>)
    IN  [instances |-> <<>>, objects |-> l.objects, out |-> Return("None"),
         disconnected |-> l.disconnected]

\* the observation of a registry call at its entry
RegBegan(op, name, arg, instance_name) ==
    [NoRegCall EXCEPT !.op = op, !.name = name, !.arg = arg,
                      !.instance_name = instance_name,
                      !.pre_connectors = connectors,
                      !.pre_instances = instances, !.pre_objects = objects]

CanCallRegistry ==
    /\ regops < MaxRegOps
    /\ \A t \in Threads : pc[t] = "idle" /\ rt[t].pc = "idle" /\ mx[t].pc = "idle"

\* registry.register(name, connector_class)
Register ==
    /\ CanCallRegistry
    /\ regops' = regops + 1
    /\ \E name \in Names, d \in Descriptors :
         LET r == RegistryRegister(connectors, name, d)
         IN  /\ connectors' = r.connectors
             /\ reg' = [RegBegan("register", name, d, <<>>) EXCEPT !.outcome = r.out]
    /\ UNCHANGED <<instances, objects>>
    /\ UNCHANGED <<instanceVars, connection_count, metricsVars, rpc, probe, ownershipVars>>

\* registry.unregister(name)
Unregister ==
    /\ CanCallRegistry
    /\ regops' = regops + 1
    /\ \E name \in Names, env \in {"ok", "close_error"} :
         LET r == RegistryUnregister(connectors, instances, objects, name, env)
         IN  /\ connectors' = r.connectors
             /\ instances' = r.instances
             /\ objects' = r.objects
             /\ reg' = [RegBegan("unregister", name, "none", <<>>) EXCEPT
                           !.outcome = r.out, !.disconnected = r.disconnected]
    /\ UNCHANGED <<instanceVars, connection_count, metricsVars, rpc, probe, ownershipVars>>

\* the configs a connector is created with: accepted, rejected by the
\* validation of the adapter's constructor, or carrying a logging level the
\* logging module does not have
CreateConfigs == {"valid", "invalid", "bad_log_level"}

\* registry.create_connector(name, config, instance_name)
CreateConnector ==
    /\ CanCallRegistry
    /\ regops' = regops + 1
    /\ \E name \in Names, cfg \in CreateConfigs,
          instance_name \in {<<>>} \cup {<<n>> : n \in Names} :
         LET r == RegistryCreateConnector(connectors, instances, objects,
                                          name, cfg, instance_name)
         IN  /\ instances' = r.instances
             /\ objects' = r.objects
             /\ reg' = [RegBegan("create_connector", name, cfg, instance_name)
                           EXCEPT !.outcome = r.out, !.listed = r.listed,
                                  !.built = r.built]
    /\ UNCHANGED connectors
    /\ UNCHANGED <<instanceVars, connection_count, metricsVars, rpc, probe, ownershipVars>>

\* registry.get_instance(instance_name)
GetInstance ==
    /\ CanCallRegistry
    /\ regops' = regops + 1
    /\ \E name \in Names :
         LET r == RegistryGetInstance(instances, name)
         IN  reg' = [RegBegan("get_instance", name, "none", <<>>) EXCEPT
                        !.outcome = r.out, !.listed = r.listed, !.built = r.built]
    /\ UNCHANGED <<connectors, instances, objects>>
    /\ UNCHANGED <<instanceVars, connection_count, metricsVars, rpc, probe, ownershipVars>>

\* registry.cleanup_instances()
CleanupInstances ==
    /\ CanCallRegistry
    /\ regops' = regops + 1
    /\ \E fails \in SUBSET {instances[i].value : i \in 1 .. Len(instances)} :
         LET r == RegistryCleanup(instances, objects, fails)
         IN  /\ instances' = r.instances
             /\ objects' = r.objects
             /\ reg' = [RegBegan("cleanup_instances", "none", "none", <<>>) EXCEPT
                           !.outcome = r.out, !.disconnected = r.disconnected]
    /\ UNCHANGED connectors
    /\ UNCHANGED <<instanceVars, connection_count, metricsVars, rpc, probe, ownershipVars>>

\* the holder of an object built by the registry connects it, once:
\* connect_with_retry() whose first connect() succeeds
ObjectConnect ==
    /\ \A t \in Threads : pc[t] = "idle" /\ rt[t].pc = "idle" /\ mx[t].pc = "idle"
    /\ UNCHANGED regops
    /\ \E id \in 1 .. Len(objects) :
         LET r == ObjectConnectBody(objects[id].cls, objects[id], "ok", 1)
             m == CwrTail(config, [s |-> r.s, count |-> 0], r.out)
         IN  /\ ~objects[id].connected
             /\ objects' = [objects EXCEPT ![id] = m.s]
             /\ reg' = [RegBegan("connect", objects[id].connector_name, "none", <<>>)
                           EXCEPT !.outcome = r.out, !.built = id]
    /\ UNCHANGED <<connectors, instances>>
    /\ UNCHANGED <<instanceVars, connection_count, metricsVars, rpc, probe, ownershipVars>>

InitRegistry ==
    /\ Init
    /\ adapter = "mock"
    /\ config = [metrics_enabled |-> TRUE,
                 retry |-> [max_attempts |-> 3, backoff_factor |-> 2,
                            initial_delay |-> 1, max_delay |-> 600]]

NextRegistry ==
    \/ Register
    \/ Unregister
    \/ CreateConnector
    \/ GetInstance
    \/ CleanupInstances
    \/ ObjectConnect

SpecRegistry == InitRegistry /\ [][NextRegistry]_vars

----------------------------------------------------------------------------
(* The registry called from several threads: connectors/registry.py takes   *)
(* no lock, so a thread can be switched between any two accesses to         *)
(* _connectors and _instances.  One action per access.  The connectors are  *)
(* MockConnector objects, whose constructor and disconnect() do not fail.   *)

RegFrame(op, name, instance_name) ==
    [IdleRegFrame EXCEPT !.op = op, !.name = name, !.instance_name = instance_name]

CanBeginRegistry(t) ==
    /\ rpc[t].pc = "idle"
    /\ regops < MaxRegOps
    /\ pc[t] = "idle" /\ rt[t].pc = "idle" /\ mx[t].pc = "idle"

\* the call ends with the outcome out
RegDone(f, out) == [f EXCEPT !.pc = "idle", !.outcome = out]

\* d[k] of a dict: KeyError when the key is not there
KeyError == Raise(Exc("KeyError", 0))

\* the objects removed from the table ins that are connected and on which the
\* call has not called disconnect()
DroppedConnected(removed, objs, attempted) ==
    {id \in removed : objs[id].connected /\ id \notin attempted}

\* register(name, connector_class): the check and the assignment at line 33
ThreadRegister(t) ==
    /\ CanBeginRegistry(t)
    /\ regops' = regops + 1
    /\ \E name \in Names :
         LET r == RegistryRegister(connectors, name, "MockConnector")
         IN  /\ connectors' = r.connectors
             /\ rpc' = [rpc EXCEPT ![t] = RegDone(RegFrame("register", name, <<>>), r.out)]
    /\ UNCHANGED <<instances, objects, reg>>
    /\ UNCHANGED <<instanceVars, connection_count, metricsVars, probe, ownershipVars>>

\* unregister(name), line 38: if name in self._connectors
UnregisterCheckType(t) ==
    /\ CanBeginRegistry(t)
    /\ regops' = regops + 1
    /\ \E name \in Names :
         rpc' = [rpc EXCEPT ![t] =
                    [RegFrame("unregister", name, <<>>) EXCEPT
                        !.pc = IF DictHas(connectors, name)
                               THEN "unreg_del_type" ELSE "unreg_check"]]
    /\ UNCHANGED <<connectors, instances, objects, reg>>
    /\ UNCHANGED <<instanceVars, connection_count, metricsVars, probe, ownershipVars>>

\* line 39: del self._connectors[name]
UnregisterDelType(t) ==
    /\ rpc[t].pc = "unreg_del_type"
    /\ IF DictHas(connectors, rpc[t].name)
       THEN /\ connectors' = DictDel(connectors, rpc[t].name)
            /\ rpc' = [rpc EXCEPT ![t].pc = "unreg_check"]
       ELSE /\ UNCHANGED connectors
            /\ rpc' = [rpc EXCEPT ![t] = RegDone(@, KeyError)]
    /\ UNCHANGED <<instances, objects, reg, regops>>
    /\ UNCHANGED <<instanceVars, connection_count, metricsVars, probe, ownershipVars>>

\* line 43: if name in self._instances
UnregisterCheckInstance(t) ==
    /\ rpc[t].pc = "unreg_check"
    /\ rpc' = [rpc EXCEPT ![t] =
                  IF DictHas(instances, rpc[t].name)
                  THEN [@ EXCEPT !.pc = "unreg_read"]
                  ELSE RegDone(@, Return("None"))]
    /\ UNCHANGED <<connectors, instances, objects, reg, regops>>
    /\ UNCHANGED <<instanceVars, connection_count, metricsVars, probe, ownershipVars>>

\* line 44: instance = self._instances[name]
UnregisterRead(t) ==
    /\ rpc[t].pc = "unreg_read"
    /\ rpc' = [rpc EXCEPT ![t] =
                  IF DictHas(instances, rpc[t].name)
                  THEN [@ EXCEPT !.pc = "unreg_disconnect",
                                 !.instance = DictGet(instances, rpc[t].name)]
                  ELSE RegDone(@, KeyError)]
    /\ UNCHANGED <<connectors, instances, objects, reg, regops>>
    /\ UNCHANGED <<instanceVars, connection_count, metricsVars, probe, ownershipVars>>

\* line 45: if hasattr(instance, 'disconnect') and instance.is_connected
UnregisterReadConnected(t) ==
    /\ rpc[t].pc = "unreg_disconnect"
    /\ rpc' = [rpc EXCEPT ![t].pc = IF objects[rpc[t].instance].connected
                                    THEN "unreg_call" ELSE "unreg_del"]
    /\ UNCHANGED <<connectors, instances, objects, reg, regops>>
    /\ UNCHANGED <<instanceVars, connection_count, metricsVars, probe, ownershipVars>>

\* line 46: instance.disconnect(), whatever the instance has become since
\* is_connected was read
UnregisterDisconnect(t) ==
    /\ rpc[t].pc = "unreg_call"
    /\ LET id == rpc[t].instance
       IN  /\ objects' = [objects EXCEPT ![id] =
                             ObjectDisconnect(objects[id].cls, objects[id], "ok").s]
           /\ rpc' = [rpc EXCEPT ![t].pc = "unreg_del",
                                 ![t].attempted = @ \cup {id}]
    /\ UNCHANGED <<connectors, instances, reg, regops>>
    /\ UNCHANGED <<instanceVars, connection_count, metricsVars, probe, ownershipVars>>

\* line 47: del self._instances[name]
UnregisterDel(t) ==
    /\ rpc[t].pc = "unreg_del"
    /\ IF DictHas(instances, rpc[t].name)
       THEN /\ instances' = DictDel(instances, rpc[t].name)
            /\ rpc' = [rpc EXCEPT ![t] =
                          RegDone([@ EXCEPT !.dropped =
                                      DroppedConnected({DictGet(instances, rpc[t].name)},
                                                       objects, rpc[t].attempted)],
                                  Return("None"))]
       ELSE /\ UNCHANGED instances
            /\ rpc' = [rpc EXCEPT ![t] = RegDone(@, KeyError)]
    /\ UNCHANGED <<connectors, objects, reg, regops>>
    /\ UNCHANGED <<instanceVars, connection_count, metricsVars, probe, ownershipVars>>

\* create_connector, line 62: if name not in self._connectors
CreateCheck(t) ==
    /\ CanBeginRegistry(t)
    /\ regops' = regops + 1
    /\ \E name \in Names, instance_name \in {<<>>} \cup {<<n>> : n \in Names} :
         rpc' = [rpc EXCEPT ![t] =
                    [RegFrame("create_connector", name, instance_name) EXCEPT
                        !.pc = IF DictHas(connectors, name)
                               THEN "create_read" ELSE "create_list"]]
    /\ UNCHANGED <<connectors, instances, objects, reg>>
    /\ UNCHANGED <<instanceVars, connection_count, metricsVars, probe, ownershipVars>>

\* line 63: available = list(self._connectors.keys()), the keys there are by
\* now, and the ConfigurationError that names them
CreateList(t) ==
    /\ rpc[t].pc = "create_list"
    /\ rpc' = [rpc EXCEPT ![t] =
                  RegDone([@ EXCEPT !.listed = DictKeys(connectors)],
                          Raise(Exc("ConfigurationError", 0)))]
    /\ UNCHANGED <<connectors, instances, objects, reg, regops>>
    /\ UNCHANGED <<instanceVars, connection_count, metricsVars, probe, ownershipVars>>

\* line 66: return self._connectors[name]
CreateRead(t) ==
    /\ rpc[t].pc = "create_read"
    /\ rpc' = [rpc EXCEPT ![t] =
                  IF DictHas(connectors, rpc[t].name)
                  THEN [@ EXCEPT !.pc = "create_store",
                                 !.cls = DictGet(connectors, rpc[t].name)]
                  ELSE RegDone(@, KeyError)]
    /\ UNCHANGED <<connectors, instances, objects, reg, regops>>
    /\ UNCHANGED <<instanceVars, connection_count, metricsVars, probe, ownershipVars>>

\* lines 82-89: the constructor and self._instances[instance_name] = instance
CreateStore(t) ==
    /\ rpc[t].pc = "create_store"
    /\ LET f == rpc[t]
           made == Construct(f.cls, "valid",
                             IF f.instance_name # <<>> THEN f.instance_name[1]
                             ELSE f.name)
           id == Len(objects) + 1
       IN  /\ objects' = Append(objects, [made.obj EXCEPT !.type_key = f.name])
           /\ instances' = IF f.instance_name # <<>>
                           THEN DictSet(instances, f.instance_name[1], id)
                           ELSE instances
           /\ rpc' = [rpc EXCEPT ![t] = RegDone([@ EXCEPT !.built = id],
                                                Return("instance"))]
    /\ UNCHANGED <<connectors, reg, regops>>
    /\ UNCHANGED <<instanceVars, connection_count, metricsVars, probe, ownershipVars>>

\* get_instance, line 104: if instance_name not in self._instances
GetInstanceCheck(t) ==
    /\ CanBeginRegistry(t)
    /\ regops' = regops + 1
    /\ \E name \in Names :
         rpc' = [rpc EXCEPT ![t] =
                    [RegFrame("get_instance", name, <<>>) EXCEPT
                        !.pc = IF DictHas(instances, name)
                               THEN "get_read" ELSE "get_list"]]
    /\ UNCHANGED <<connectors, instances, objects, reg>>
    /\ UNCHANGED <<instanceVars, connection_count, metricsVars, probe, ownershipVars>>

\* line 105: available = list(self._instances.keys()), the keys there are by
\* now, and the ConfigurationError that names them
GetInstanceList(t) ==
    /\ rpc[t].pc = "get_list"
    /\ rpc' = [rpc EXCEPT ![t] =
                  RegDone([@ EXCEPT !.listed = DictKeys(instances)],
                          Raise(Exc("ConfigurationError", 0)))]
    /\ UNCHANGED <<connectors, instances, objects, reg, regops>>
    /\ UNCHANGED <<instanceVars, connection_count, metricsVars, probe, ownershipVars>>

\* line 108: return self._instances[instance_name]
GetInstanceRead(t) ==
    /\ rpc[t].pc = "get_read"
    /\ rpc' = [rpc EXCEPT ![t] =
                  IF DictHas(instances, rpc[t].name)
                  THEN RegDone([@ EXCEPT !.built = DictGet(instances, rpc[t].name)],
                               Return("instance"))
                  ELSE RegDone(@, KeyError)]
    /\ UNCHANGED <<connectors, instances, objects, reg, regops>>
    /\ UNCHANGED <<instanceVars, connection_count, metricsVars, probe, ownershipVars>>

\* the loop of cleanup_instances goes on to its next item, or to line 128
CleanupAdvance(f) ==
    IF f.pos < Len(f.items)
    THEN [f EXCEPT !.pc = "cleanup_read", !.pos = @ + 1]
    ELSE [f EXCEPT !.pc = "cleanup_clear"]

\* cleanup_instances, line 120: list(self._instances.items())
CleanupCopy(t) ==
    /\ CanBeginRegistry(t)
    /\ regops' = regops + 1
    /\ rpc' = [rpc EXCEPT ![t] =
                  CleanupAdvance([RegFrame("cleanup_instances", "none", <<>>)
                                     EXCEPT !.items = instances])]
    /\ UNCHANGED <<connectors, instances, objects, reg>>
    /\ UNCHANGED <<instanceVars, connection_count, metricsVars, probe, ownershipVars>>

\* line 122: if hasattr(instance, 'disconnect') and instance.is_connected
CleanupReadConnected(t) ==
    /\ rpc[t].pc = "cleanup_read"
    /\ rpc' = [rpc EXCEPT ![t] =
                  IF objects[rpc[t].items[rpc[t].pos].value].connected
                  THEN [@ EXCEPT !.pc = "cleanup_call"]
                  ELSE CleanupAdvance(@)]
    /\ UNCHANGED <<connectors, instances, objects, reg, regops>>
    /\ UNCHANGED <<instanceVars, connection_count, metricsVars, probe, ownershipVars>>

\* line 123: instance.disconnect(), whatever the instance has become since
\* is_connected was read
CleanupDisconnect(t) ==
    /\ rpc[t].pc = "cleanup_call"
    /\ LET id == rpc[t].items[rpc[t].pos].value
       IN  /\ objects' = [objects EXCEPT ![id] =
                             ObjectDisconnect(objects[id].cls, objects[id], "ok").s]
           /\ rpc' = [rpc EXCEPT ![t] =
                         CleanupAdvance([@ EXCEPT !.attempted = @ \cup {id}])]
    /\ UNCHANGED <<connectors, instances, reg, regops>>
    /\ UNCHANGED <<instanceVars, connection_count, metricsVars, probe, ownershipVars>>

\* line 128: self._instances.clear()
CleanupClear(t) ==
    /\ rpc[t].pc = "cleanup_clear"
    /\ instances' = <<>>
    /\ rpc' = [rpc EXCEPT ![t] =
                  RegDone([@ EXCEPT !.dropped =
                              DroppedConnected({instances[i].value : i \in 1 .. Len(instances)},
                                               objects, rpc[t].attempted)],
                          Return("None"))]
    /\ UNCHANGED <<connectors, objects, reg, regops>>
    /\ UNCHANGED <<instanceVars, connection_count, metricsVars, probe, ownershipVars>>

\* the thread that was handed an object calls connect_with_retry() on it:
\* _connect(), that is the connect() of the object
ThreadConnect(t) ==
    /\ rpc[t].pc = "idle"
    /\ rpc[t].op \in {"create_connector", "get_instance"}
    /\ rpc[t].built # 0
    /\ ~objects[rpc[t].built].connected
    /\ objects' = [objects EXCEPT ![rpc[t].built] =
                      ObjectConnectBody(@.cls, @, "ok", 1).s]
    /\ rpc' = [rpc EXCEPT ![t].pc = "connect_mark"]
    /\ UNCHANGED <<connectors, instances, reg, regops>>
    /\ UNCHANGED <<instanceVars, connection_count, metricsVars, probe, ownershipVars>>

\* connect_with_retry after _connect() and the counting of the connection in
\* the object's own collector: self._connected = True
ThreadConnectMark(t) ==
    /\ rpc[t].pc = "connect_mark"
    /\ objects' = [objects EXCEPT ![rpc[t].built] = CwrMark(@, Return("None"))]
    /\ rpc' = [rpc EXCEPT ![t].pc = "idle"]
    /\ UNCHANGED <<connectors, instances, reg, regops>>
    /\ UNCHANGED <<instanceVars, connection_count, metricsVars, probe, ownershipVars>>

NextRegistryThreads ==
    \E t \in Threads :
        \/ ThreadRegister(t)
        \/ UnregisterCheckType(t)
        \/ UnregisterDelType(t)
        \/ UnregisterCheckInstance(t)
        \/ UnregisterRead(t)
        \/ UnregisterReadConnected(t)
        \/ UnregisterDisconnect(t)
        \/ UnregisterDel(t)
        \/ CreateCheck(t)
        \/ CreateList(t)
        \/ CreateRead(t)
        \/ CreateStore(t)
        \/ GetInstanceCheck(t)
        \/ GetInstanceList(t)
        \/ GetInstanceRead(t)
        \/ CleanupCopy(t)
        \/ CleanupReadConnected(t)
        \/ CleanupDisconnect(t)
        \/ CleanupClear(t)
        \/ ThreadConnect(t)
        \/ ThreadConnectMark(t)

SpecRegistryThreads == InitRegistry /\ [][NextRegistryThreads]_vars

----------------------------------------------------------------------------
(* test_connection(): the probes of the adapters.  cenv is what the server  *)
(* does during a connect() or authenticate() made by the probe, penv what   *)
(* it does during the round trip.  Each returns the instance state after,   *)
(* the outcomes of the calls made inside, in order, and the outcome of      *)
(* test_connection itself.                                                  *)

ProbeEnvs == {"ok", "probe_error", "bad_result", "interrupt"}

\* faulty variant: no except clause
ProbeHandler_Propagates(out) == out

\* except Exception as e: log, return False
ProbeHandler(out) ==
    IF out.type = "raise" /\ Caught(out.exc.cls, {"Exception"})
    THEN Return("False")
    ELSE out

\* the outcomes of the calls that were made
Made(outs) == SelectSeq(outs, LAMBDA o : o.type # "none")

ProbeResult(s, inner, body, est) ==
    [s |-> s, inner |-> Made(inner), out |-> ProbeHandler(body), established |-> est]

\* tests/test_base.py MockConnector.test_connection
MockTestConnection(s) ==
    [s |-> s, inner |-> <<>>,
     out |-> Return(IF s.connected THEN "True" ELSE "False"), established |-> FALSE]

\* db/postgresql.py: cursor.execute("SELECT 1 as test"), fetchone() and the
\* comparison of the row
PostgresRoundTrip(penv) ==
    CASE penv = "probe_error" -> Raise(Exc("OSError", 2))
      [] penv = "interrupt"   -> Raise(Exc("KeyboardInterrupt", 0))
      [] penv = "bad_result"  -> Return("False")
      [] OTHER                -> Return("True")

\* db/postgresql.py PostgreSQLConnector.test_connection
PostgresTestConnection(s, cenv, penv) ==
    LET c == IF ~s.connected THEN PostgresConnect(s, cenv, 1)
             ELSE [s |-> s, out |-> NoOutcome]
        p == IF c.out.type = "raise" THEN NoOutcome ELSE PostgresRoundTrip(penv)
    IN  ProbeResult(c.s, <<c.out, p>>,
                    IF c.out.type = "raise" THEN c.out ELSE p,
                    ~s.connected /\ Establishes(cenv))

\* messaging/smtp.py SMTPConnector.test_connection: connect() and
\* disconnect() when not connected, no round trip when connected
SMTPTestConnection(s, cenv) ==
    IF s.connected
    THEN [s |-> s, inner |-> <<>>, out |-> Return("True"), established |-> FALSE]
    ELSE LET c == SMTPConnect(s, cenv, 1)
             d == IF c.out.type = "raise" THEN [s |-> c.s, out |-> NoOutcome]
                  ELSE SMTPDisconnect(c.s, "ok")
         IN  ProbeResult(d.s, <<c.out, d.out>>,
                         IF c.out.type = "raise" THEN c.out ELSE Return("True"),
                         Establishes(cenv))

\* social_media/twitter.py TwitterConnector.get_profile_info
TwitterProfileInfo(s, penv) ==
    IF ~s.authenticated THEN Raise(Exc("SocialMediaAuthenticationError", 2))
    ELSE CASE penv = "probe_error" -> Raise(Exc("SocialMediaAPIError", 2))
           [] penv = "interrupt"   -> Raise(Exc("KeyboardInterrupt", 0))
           [] penv = "bad_result"  -> Return("False")
           [] OTHER                -> Return("True")

\* social_media/base_social.py SocialMediaConnector.test_connection
SocialTestConnection(s, cenv, penv) ==
    LET a == IF ~s.authenticated THEN TwitterAuthenticate(s, cenv, 1)
             ELSE [s |-> s, out |-> NoOutcome]
        p == IF a.out.type = "raise" THEN NoOutcome ELSE TwitterProfileInfo(a.s, penv)
    IN  ProbeResult(a.s, <<a.out, p>>,
                    IF a.out.type = "raise" THEN a.out ELSE p,
                    ~s.authenticated /\ Establishes(cenv))

\* self.test_connection()
AdapterTestConnection(kind, s, cenv, penv) ==
    CASE kind = "mock"       -> MockTestConnection(s)
      [] kind = "postgresql" -> PostgresTestConnection(s, cenv, penv)
      [] kind = "smtp"       -> SMTPTestConnection(s, cenv)
      [] OTHER               -> SocialTestConnection(s, cenv, penv)

\* connector.test_connection()
CallTestConnection(t) ==
    /\ pc[t] = "idle"
    /\ ops < MaxOps
    /\ \E cenv \in ConnectEnvs(adapter), penv \in ProbeEnvs :
         LET r == AdapterTestConnection(adapter, Inst, cenv, penv)
         IN  /\ SetInst(r.s)
             /\ established' = established + (IF r.established THEN 1 ELSE 0)
             /\ probe' = [op |-> "test_connection", pre_connected |-> connected,
                          inner |-> r.inner, outcome |-> r.out,
                          post_connected |-> r.s.connected,
                          pre_count |-> connection_count,
                          post_count |-> connection_count]
    /\ ops' = ops + 1
    /\ Forget(t, {"rt", "scope", "cwr", "direct"})
    /\ UNCHANGED <<adapter, config, connection_count, pc>>
    /\ UNCHANGED <<metricsVars, registryVars, ownershipVars>>

NextProbe ==
    \/ CallConnect(MainThread)
    \/ CallDisconnect(MainThread)
    \/ CallTestConnection(MainThread)

SpecProbe == Init /\ [][NextProbe]_vars

----------------------------------------------------------------------------
(* Ownership of the config map: BaseConnector.__init__ stores the map it is *)
(* handed.  config_maps are the dict objects, config_refs says which one    *)
(* the caller, the instance and a second instance built from the caller's   *)
(* map refer to; config is the content of the one the instance refers to.   *)

\* the caller, or the holder of the second instance, sets the attempts in
\* the retry section of its map: cfg['retry']['max_attempts'] = n
ChangeConfig(t) ==
    /\ pc[t] = "idle"
    /\ ops < MaxOps
    /\ \E via \in {"caller", "other"}, n \in 1 .. MaxAttempts :
         /\ config_maps[config_refs[via]].retry.max_attempts # n
         /\ config_maps' = [config_maps EXCEPT
                               ![config_refs[via]].retry.max_attempts = n]
    /\ config' = config_maps'[config_refs.self]
    /\ ops' = ops + 1
    /\ UNCHANGED <<rt, adapter, connected, resource, authenticated,
                   connection_count, pc, scope, cwr, direct, established>>
    /\ UNCHANGED <<metricsVars, registryVars, probe, config_refs, config_built,
                   collectors, created_by, metrics_of, states_of, icall>>

NextOwnership ==
    \/ ChangeConfig(MainThread)
    \/ CallConnectWithRetry(MainThread)
    \/ RetryInvokeConnect(MainThread)
    \/ RetryConnectAnswered(MainThread)
    \/ ConnectRetrySleep(MainThread)
    \/ CountConnectionRead(MainThread)
    \/ IncrementWrite(MainThread)
    \/ ConnectWithRetryFinish(MainThread)

SpecOwnership == Init /\ [][NextOwnership]_vars

----------------------------------------------------------------------------
(* Properties of the retry executor *)

\* the failure is of a kind the policy retries
Retryable(p, out) ==
    /\ out.type = "raise"
    /\ \E d \in p.exceptions : IsSubclass(out.exc.cls, d)

NonRetryable(p, out) ==
    /\ out.type = "raise"
    /\ \A d \in p.exceptions : ~IsSubclass(out.exc.cls, d)

AlwaysRetryableFailure(f) ==
    \A i \in 1 .. Len(f.hist) : Retryable(f.policy, f.hist[i])

\* the backoff sleep was interrupted from outside
Interrupted(f) == f.outcome = Raise(Exc("KeyboardInterrupt", 0))

\* C1: with max_attempts = n >= 1, an operation that fails with a retryable
\* kind at every attempt is never invoked more than n times, and when the
\* call ends (its backoff not interrupted) it has been invoked exactly n
\* times, n-1 delays were slept, and the caller gets one RetryExhaustedError
\* whose cause is the failure raised by the n-th attempt.
C1_ExhaustedAfterN ==
    \A t \in Threads :
        LET f == rt[t]
            n == f.policy.max_attempts
        IN  (n >= 1 /\ AlwaysRetryableFailure(f)) =>
               /\ Len(f.hist) <= n
               /\ (f.pc = "done" /\ ~Interrupted(f)) =>
                     /\ Len(f.hist) = n
                     /\ Len(f.slept) = n - 1
                     /\ f.outcome = Raise(ExcFrom("RetryExhaustedError", f.hist[n].exc))
                     /\ f.outcome.exc.cause = [cls |-> f.hist[n].exc.cls, at |-> n]

C1_Witness ==
    \E t \in Threads :
        /\ rt[t].pc = "done"
        /\ rt[t].policy.max_attempts = 3
        /\ AlwaysRetryableFailure(rt[t])
        /\ Len(rt[t].hist) = 3
        /\ Len(rt[t].slept) = 2
        /\ rt[t].outcome.exc.cls = "RetryExhaustedError"

\* C2: a failure of a kind the policy does not retry ends the call at once:
\* it is the last invocation, it reaches the caller unchanged (not wrapped
\* in RetryExhaustedError), and no delay is slept after it; when it is the
\* first failure the operation was invoked exactly once and nothing slept.
C2_NonRetryablePropagates ==
    \A t \in Threads :
        LET f == rt[t]
        IN  \A k \in 1 .. Len(f.hist) :
               NonRetryable(f.policy, f.hist[k]) =>
                  /\ k = Len(f.hist)
                  /\ f.pc = "done"
                  /\ f.outcome = f.hist[k]
                  /\ Len(f.slept) = k - 1

C2_Witness ==
    \E t \in Threads :
        /\ rt[t].pc = "done"
        /\ rt[t].policy.max_attempts = 3
        /\ Len(rt[t].hist) = 1
        /\ NonRetryable(rt[t].policy, rt[t].hist[1])
        /\ rt[t].outcome.exc.cls = "ConfigurationError"
        /\ rt[t].slept = <<>>

----------------------------------------------------------------------------
(* Properties of the connector lifecycle (one calling thread) *)

Quiescent == \A t \in Threads : pc[t] \in {"idle", "conn_body", "with_body"}

\* C3: a connection() scope whose enclosed work was entered calls the
\* adapter's disconnect() exactly once on leaving, whether the work returned
\* or raised.
C3_DisconnectOncePerScope ==
    \A t \in Threads :
        (scope[t].form = "connection" /\ scope[t].state = "exited") =>
            scope[t].disconnects = 1

C3_Witness ==
    \E t \in Threads :
        /\ scope[t].form = "connection"
        /\ scope[t].state = "exited"
        /\ scope[t].work.type = "raise"
        /\ scope[t].disconnects = 1

\* C4: in both scoped forms is_connected is true when the enclosed work
\* starts and false once the scope has been left, whatever the adapter's
\* disconnect does.
C4_ConnectedInsideDisconnectedAfter ==
    \A t \in Threads :
        /\ scope[t].state = "body" => (scope[t].body_connected /\ connected)
        /\ scope[t].state = "exited" => ~scope[t].post_connected

\* C5: a direct disconnect() returns without raising and leaves the
\* instance disconnected, also when the release fails and also when the
\* instance was already disconnected.
C5_DisconnectAlwaysDisconnects ==
    \A t \in Threads :
        direct[t].op = "disconnect" =>
            /\ direct[t].state = "returned"
            /\ ~direct[t].post_connected

\* C6: a failure of the adapter's disconnect during the teardown of a scope
\* never reaches the caller: the scope ends the way the enclosed work ended.
C6_TeardownFailureAbsorbed ==
    \A t \in Threads :
        (scope[t].state = "exited" /\ scope[t].teardown.type = "raise") =>
            scope[t].exit = scope[t].work

\* the connect attempts of the last connect_with_retry: two ConnectionError
\* failures, then a success
FailsTwiceThenSucceeds(f) ==
    /\ Len(f.hist) = 3
    /\ f.hist[1] = Raise(Exc("ConnectionError", 1))
    /\ f.hist[2] = Raise(Exc("ConnectionError", 2))
    /\ f.hist[3].type = "return"

\* C7: with max_attempts = 3 and a connect that fails with ConnectionError
\* twice and then succeeds, connect_with_retry returns at the third attempt
\* after exactly two backoff delays, the instance is connected, and the
\* connection counter has grown by one (to 1 on a fresh instance).
C7_SucceedsOnThirdAttempt ==
    \A t \in Threads :
        (/\ cwr[t].state \in {"returned", "raised"}
         /\ rt[t].policy.max_attempts = 3
         /\ FailsTwiceThenSucceeds(rt[t])) =>
            /\ cwr[t].state = "returned"
            /\ Len(rt[t].slept) = 2
            /\ cwr[t].post_connected
            /\ config.metrics_enabled => cwr[t].post_count = cwr[t].pre_count + 1

C7_Witness ==
    \E t \in Threads :
        /\ cwr[t].state = "returned"
        /\ rt[t].policy.max_attempts = 3
        /\ FailsTwiceThenSucceeds(rt[t])
        /\ Len(rt[t].slept) = 2
        /\ cwr[t].pre_count = 0
        /\ cwr[t].post_count = 1
        /\ connected

\* C8: with metrics enabled the connection counter equals the number of
\* connections established, whichever way connect() was called.
C8_CountEqualsEstablished ==
    (Quiescent /\ config.metrics_enabled) => connection_count = established

\* C9: when connect_with_retry on a disconnected instance ends in a failure,
\* the instance is still disconnected and the connection counter unchanged.
C9_FailedConnectStaysDisconnected ==
    \A t \in Threads :
        (cwr[t].state = "raised" /\ ~cwr[t].pre_connected) =>
            /\ ~cwr[t].post_connected
            /\ cwr[t].post_count = cwr[t].pre_count

C9_Witness ==
    \E t \in Threads :
        /\ cwr[t].state = "raised"
        /\ ~cwr[t].pre_connected
        /\ cwr[t].outcome.exc.cls = "RetryExhaustedError"
        /\ Len(rt[t].hist) = 3
        /\ ~connected
        /\ connection_count = 0

\* C10: entering a scope on an instance that is already connected makes no
\* connect() call and leaves the connection counter as it was, in both
\* scoped forms.
C10_NoReconnectWhenConnected ==
    \A t \in Threads :
        (scope[t].form # "none" /\ scope[t].pre_connected) =>
            /\ scope[t].connects = 0
            /\ scope[t].state = "body" => connection_count = scope[t].pre_count

----------------------------------------------------------------------------
(* Properties of the backoff delays *)

\* initial_delay * backoff_factor^i, capped at max_delay
CappedPower(p, i) ==
    LET raw == p.initial_delay * Pow(p.backoff_factor, i)
    IN  IF raw <= p.max_delay THEN raw ELSE p.max_delay

\* 1, 2, 4, 8, 10, 10, ... seconds, in ticks
DoublingToTen(i) ==
    CASE i = 1 -> 10 [] i = 2 -> 20 [] i = 3 -> 40 [] i = 4 -> 80 [] OTHER -> 100

\* C11: with jitter disabled the delay slept after the failed attempt with
\* 0-based index i is min(initial_delay * backoff_factor^i, max_delay); for
\* initial_delay 1 s, backoff_factor 2, max_delay 10 s the delays slept are
\* 1, 2, 4, 8, 10, 10, ... seconds.
C11_DelayWithoutJitter ==
    \A t \in Threads :
        LET f == rt[t]
        IN  ~f.policy.jitter =>
               /\ \A i \in 1 .. Len(f.slept) :
                      f.slept[i] = CappedPower(f.policy, i - 1)
               /\ f.pc = "sleep" => f.delay = CappedPower(f.policy, f.attempt)
               /\ f.policy = SequencePolicy =>
                      \A i \in 1 .. Len(f.slept) : f.slept[i] = DoublingToTen(i)

C11_Witness ==
    \E t \in Threads :
        /\ rt[t].policy = SequencePolicy
        /\ Len(rt[t].slept) >= 6
        /\ SubSeq(rt[t].slept, 1, 6) = <<10, 20, 40, 80, 100, 100>>

\* C12: every delay slept between two attempts is at most max_delay, with
\* jitter enabled or disabled, so the delays of one call add up to at most
\* max_attempts * max_delay.
RECURSIVE SumSeq(_)
SumSeq(q) == IF q = <<>> THEN 0 ELSE Head(q) + SumSeq(Tail(q))

C12_DelayAtMostMaxDelay ==
    \A t \in Threads :
        LET f == rt[t]
        IN  /\ \A i \in 1 .. Len(f.slept) : f.slept[i] <= f.policy.max_delay
            /\ SumSeq(f.slept) <= f.policy.max_attempts * f.policy.max_delay

\* C13: when the operation returns at the attempt with 0-based index i, after
\* i retryable failures, the call returns that result at once: it is the
\* last invocation, the operation was invoked i+1 times, i delays were slept
\* and no RetryExhaustedError is raised.
C13_ReturnsAtFirstSuccess ==
    \A t \in Threads :
        LET f == rt[t]
        IN  \A k \in 1 .. Len(f.hist) :
               f.hist[k].type = "return" =>
                  /\ k = Len(f.hist)
                  /\ k <= f.policy.max_attempts
                  /\ f.pc = "done"
                  /\ f.outcome = f.hist[k]
                  /\ Len(f.slept) = k - 1
                  /\ \A j \in 1 .. k - 1 : Retryable(f.policy, f.hist[j])

C13_Witness ==
    \E t \in Threads :
        /\ rt[t].pc = "done"
        /\ Len(rt[t].hist) = 3
        /\ rt[t].hist[3] = Return("result")
        /\ Len(rt[t].slept) = 2
        /\ rt[t].outcome = Return("result")

----------------------------------------------------------------------------
(* Properties of execute_with_metrics and the collector, one calling thread *)

\* the call of the main thread into the metrics API that ended last
LastCall == mx[MainThread]

ExecReturned ==
    /\ LastCall.op = "execute_with_metrics"
    /\ LastCall.pc = "idle"

\* since the call began, exactly the metric m of this call was appended, with
\* the flag `success`, and exactly the matching counter grew by one
RecordedOnce(f, success) ==
    LET v == AggregateView
        n == Len(f.pre.operations)
    IN  /\ f.metric # 0
        /\ Len(v.operations) = n + 1
        /\ SubSeq(v.operations, 1, n) = f.pre.operations
        /\ operations[n + 1] = f.metric
        /\ v.operations[n + 1].success = success
        /\ v.operations[n + 1].end_time # <<>>
        /\ v.successful_operations =
              f.pre.successful_operations + (IF success THEN 1 ELSE 0)
        /\ v.failed_operations =
              f.pre.failed_operations + (IF success THEN 0 ELSE 1)

\* C14 as stated: with metrics enabled every execute_with_metrics call
\* appends exactly one OperationMetric whose success flag is the outcome of
\* the operation and increments exactly one of the two counters, and a
\* failure of the operation reaches the caller unchanged.
C14_EveryCallRecorded ==
    (config.metrics_enabled /\ ExecReturned) =>
        /\ RecordedOnce(LastCall, LastCall.func.type = "return")
        /\ LastCall.outcome = LastCall.func

\* C14 (amended): with metrics enabled an execute_with_metrics call whose
\* operation returns or fails with an Exception appends exactly one
\* OperationMetric whose success flag is the outcome of the operation and
\* increments exactly one of the two counters, and the failure reaches the
\* caller unchanged after being recorded; a failure that is not an
\* Exception (KeyboardInterrupt) reaches the caller unchanged and nothing is
\* recorded.
C14_ExceptionsRecorded ==
    (config.metrics_enabled /\ ExecReturned) =>
        /\ LastCall.outcome = LastCall.func
        /\ IF \/ LastCall.func.type = "return"
              \/ IsSubclass(LastCall.func.exc.cls, "Exception")
           THEN RecordedOnce(LastCall, LastCall.func.type = "return")
           ELSE AggregateView = LastCall.pre

C14_Witness ==
    /\ config.metrics_enabled
    /\ ExecReturned
    /\ LastCall.func = Raise(Exc("ConnectionError", 1))
    /\ LastCall.outcome = Raise(Exc("ConnectionError", 1))
    /\ failed_operations = 1
    /\ successful_operations = 1
    /\ Len(operations) = 2

\* C15: with metrics disabled execute_with_metrics hands the result or the
\* failure of the operation to its caller unchanged and calls no method of
\* a collector (there is none, and nothing is ever recorded), and
\* get_metrics_summary reports the metrics as disabled.
C15_DisabledMetricsBypassed ==
    ~config.metrics_enabled =>
        /\ heap = <<>>
        /\ Aggregate = EmptyAggregate
        /\ ExecReturned =>
              /\ LastCall.outcome = LastCall.func
              /\ LastCall.collector_calls = 0
        /\ (LastCall.op = "get_metrics_summary" /\ LastCall.pc = "idle") =>
              LastCall.summary = <<[metrics_enabled |-> FALSE]>>

C15_Witness ==
    /\ ~config.metrics_enabled
    /\ calls[MainThread].ok >= 1
    /\ LastCall.op = "get_metrics_summary"
    /\ LastCall.pc = "idle"
    /\ LastCall.summary = <<[metrics_enabled |-> FALSE]>>

\* C18: nothing a caller does to a copy returned by get_metrics, to its
\* operations list or to a metric in that list, changes the collector or
\* what a later get_metrics returns.
C18_SnapshotIndependent ==
    (LastCall.op = "mutate_snapshot") => AggregateView = LastCall.pre

\* C19: start_operation leaves the aggregate as it was: while an operation
\* is started and not ended, the operations list, the two counters, the
\* total duration and the connection count are unchanged.
C19_StartLeavesAggregate ==
    /\ (LastCall.op = "start_operation") =>
          /\ AggregateView = LastCall.pre
          /\ heap[LastCall.metric].end_time = <<>>
    /\ (LastCall.op = "execute_with_metrics" /\ LastCall.pc = "func") =>
          AggregateView = LastCall.pre

C19_Witness ==
    /\ LastCall.op = "start_operation"
    /\ LastCall.metric = 2
    /\ operations = <<1>>
    /\ successful_operations = 1

----------------------------------------------------------------------------
(* Properties of the collector used from several threads *)

AllIdle == \A t \in Threads : mx[t].pc = "idle"

\* every call made so far was an execute_with_metrics whose operation returned
OnlySuccessfulOperations == \A t \in Threads : calls[t].ok = calls[t].begun

\* C16: when the threads have each finished their execute_with_metrics
\* calls, all successful, successful_operations is the number of calls made
\* by all threads together, failed_operations is 0 and the operations list
\* has one entry per call, whatever the interleaving.
C16_NoLostUpdate ==
    (AllIdle /\ OnlySuccessfulOperations) =>
        /\ successful_operations = CallsBegun
        /\ failed_operations = 0
        /\ Len(operations) = CallsBegun

C16_Witness ==
    /\ AllIdle
    /\ OnlySuccessfulOperations
    /\ \A t \in Threads : calls[t].ok >= 1
    /\ successful_operations = 3

\* C17: every copy returned by get_metrics, under any interleaving of
\* end_operation, increment_connection_count, reset_metrics and get_metrics,
\* has as many operations as its two counters add up to.
C17_SnapshotConsistent ==
    \A t \in Threads :
        snap[t] # <<>> =>
            Len(snap[t][1].operations) =
                snap[t][1].successful_operations + snap[t][1].failed_operations

C17_Witness ==
    \E t \in Threads :
        /\ snap[t] # <<>>
        /\ Len(snap[t][1].operations) = 1
        /\ snap[t][1].connection_count = 1
        /\ calls[t].begun = 1

----------------------------------------------------------------------------
(* Properties of the registry *)

\* C20: register with a descriptor that does not satisfy the connector
\* contract (anything but a class derived from BaseConnector) fails with
\* ConfigurationError and leaves _connectors as it was; otherwise the name
\* maps to that class afterwards, replacing an earlier entry without error,
\* and no other entry of _connectors or _instances has changed.
C20_RegisterChecksDescriptor ==
    reg.op = "register" =>
        IF reg.arg \notin ConnectorClasses
        THEN /\ reg.outcome = Raise(Exc("ConfigurationError", 0))
             /\ connectors = reg.pre_connectors
        ELSE /\ reg.outcome.type = "return"
             /\ DictHas(connectors, reg.name)
             /\ DictGet(connectors, reg.name) = reg.arg
             /\ \A k \in Names \ {reg.name} :
                   /\ DictHas(connectors, k) <=> DictHas(reg.pre_connectors, k)
                   /\ DictHas(connectors, k) =>
                         DictGet(connectors, k) = DictGet(reg.pre_connectors, k)
             /\ instances = reg.pre_instances
             /\ objects = reg.pre_objects

\* the object ids stored in a table of instances
Stored(ins) == {ins[i].value : i \in 1 .. Len(ins)}

\* the elements of a sequence
Elements(q) == {q[i] : i \in 1 .. Len(q)}

\* the message lists exactly the keys of the table
ListsKeysOf(listed, d) ==
    /\ Elements(listed) = {k \in Names : DictHas(d, k)}
    /\ Len(listed) = Len(d)

\* C21: create_connector with a name that is not in _connectors fails with
\* ConfigurationError listing exactly the registered names, builds no object
\* and leaves _connectors and _instances unchanged, with and without an
\* instance_name.
C21_UnknownTypeRejected ==
    (reg.op = "create_connector" /\ ~DictHas(reg.pre_connectors, reg.name)) =>
        /\ reg.outcome = Raise(Exc("ConfigurationError", 0))
        /\ ListsKeysOf(reg.listed, connectors)
        /\ reg.built = 0
        /\ objects = reg.pre_objects
        /\ connectors = reg.pre_connectors
        /\ instances = reg.pre_instances

C21_Witness ==
    /\ reg.op = "create_connector"
    /\ ~DictHas(reg.pre_connectors, reg.name)
    /\ reg.instance_name # <<>>
    /\ Len(connectors) > 0
    /\ Len(instances) > 0

\* C22: an entry of _instances appears or changes only by a successful
\* create_connector under that name and is then the object that call returned;
\* it disappears only by unregister or cleanup_instances; get_instance(n)
\* returns the entry under n and fails with ConfigurationError listing the
\* current instance names when there is none.  Together: get_instance(n)
\* returns the object of the most recent create_connector(..., instance_name=n)
\* not removed since.
C22_GetInstanceReturnsLatest ==
    [][\A n \in Names :
        /\ (/\ DictHas(instances', n)
            /\ (~DictHas(instances, n) \/ DictGet(instances', n) # DictGet(instances, n)))
              => /\ regops' # regops
                 /\ reg'.op = "create_connector"
                 /\ reg'.instance_name = <<n>>
                 /\ reg'.outcome.type = "return"
        /\ (/\ regops' # regops
            /\ reg'.op = "create_connector"
            /\ reg'.instance_name = <<n>>
            /\ reg'.outcome.type = "return")
              => /\ DictHas(instances', n)
                 /\ DictGet(instances', n) = reg'.built
                 /\ reg'.built = Len(objects) + 1
        /\ (DictHas(instances, n) /\ ~DictHas(instances', n))
              => regops' # regops /\ reg'.op \in {"unregister", "cleanup_instances"}
        /\ (regops' # regops /\ reg'.op = "get_instance" /\ reg'.name = n)
              => IF DictHas(instances, n)
                 THEN /\ reg'.outcome.type = "return"
                      /\ reg'.built = DictGet(instances, n)
                 ELSE /\ reg'.outcome = Raise(Exc("ConfigurationError", 0))
                      /\ ListsKeysOf(reg'.listed, instances)
      ]_vars

\* get_instance returns the second object built under a name
C22_Witness ==
    /\ reg.op = "get_instance"
    /\ reg.outcome.type = "return"
    /\ reg.built = 2
    /\ objects[1].connector_name = reg.name
    /\ objects[1].type_key # reg.name

\* C23: after unregister(name) every stored instance that was created from
\* that name and was connected is disconnected and no longer in _instances.
C23_UnregisterDisconnectsInstances ==
    reg.op = "unregister" =>
        \A id \in Stored(reg.pre_instances) :
            (reg.pre_objects[id].type_key = reg.name /\ reg.pre_objects[id].connected)
                => ~objects[id].connected /\ id \notin Stored(instances)

\* C24: unregister(name) returns also when the disconnect of the instance
\* under that name fails, and the name is then in neither table.
C24_UnregisterAbsorbsDisconnectFailure ==
    reg.op = "unregister" =>
        /\ reg.outcome.type = "return"
        /\ ~DictHas(connectors, reg.name)
        /\ ~DictHas(instances, reg.name)

\* C25: cleanup_instances calls disconnect once on every stored instance that
\* is connected, also after a disconnect that failed, returns normally, leaves
\* _instances empty and _connectors unchanged.
C25_CleanupDisconnectsAll ==
    reg.op = "cleanup_instances" =>
        LET due == {id \in Stored(reg.pre_instances) : reg.pre_objects[id].connected}
        IN  /\ reg.outcome.type = "return"
            /\ instances = <<>>
            /\ connectors = reg.pre_connectors
            /\ Elements(reg.disconnected) = due
            /\ Len(reg.disconnected) = Cardinality(due)

\* two connected instances, the disconnect of the first one failed
C25_Witness ==
    /\ reg.op = "cleanup_instances"
    /\ Len(reg.disconnected) = 2
    /\ objects[reg.disconnected[1]].connected
    /\ Len(connectors) > 0

\* C27: create_connector under an instance name already in _instances puts
\* the new object there; the object stored before is not disconnected, keeps
\* its state and is stored under no name any more.
C27_OverwriteKeepsPrior ==
    (/\ reg.op = "create_connector"
     /\ reg.outcome.type = "return"
     /\ reg.instance_name # <<>>
     /\ DictHas(reg.pre_instances, reg.instance_name[1])) =>
        LET n == reg.instance_name[1]
            old == DictGet(reg.pre_instances, n)
        IN  /\ DictGet(instances, n) = reg.built
            /\ reg.built # old
            /\ objects[old] = reg.pre_objects[old]
            /\ reg.disconnected = <<>>
            /\ old \notin Stored(instances)

C27_Witness ==
    /\ reg.op = "create_connector"
    /\ reg.outcome.type = "return"
    /\ reg.instance_name # <<>>
    /\ DictHas(reg.pre_instances, reg.instance_name[1])
    /\ objects[DictGet(reg.pre_instances, reg.instance_name[1])].connected

\* C26: whatever the interleaving of the registry calls of several threads,
\* no call ends with an exception other than ConfigurationError and no call
\* removes a connected instance from _instances without having called
\* disconnect() on it.
C26_RegistryCallsAtomic ==
    \A t \in Threads :
        /\ rpc[t].outcome.type = "raise" =>
               rpc[t].outcome.exc.cls = "ConfigurationError"
        /\ rpc[t].dropped = {}

----------------------------------------------------------------------------
(* Properties of test_connection, cancellation and config ownership *)

\* a call made inside test_connection failed
ProbeFailed ==
    \E i \in 1 .. Len(probe.inner) :
        /\ probe.inner[i].type = "raise"
        /\ IsSubclass(probe.inner[i].exc.cls, "Exception")

\* C28: when the round trip of test_connection, or a connect made inside it,
\* fails, test_connection returns False; it never raises a failure (an
\* Exception) to its caller.
C28_ProbeFailureGivesFalse ==
    probe.op = "test_connection" =>
        /\ ProbeFailed => probe.outcome = Return("False")
        /\ probe.outcome.type = "raise" =>
               ~IsSubclass(probe.outcome.exc.cls, "Exception")

\* the probe connected and its round trip failed
C28_Witness ==
    /\ probe.op = "test_connection"
    /\ ~probe.pre_connected
    /\ Len(probe.inner) = 2
    /\ probe.inner[1].type = "return"
    /\ ProbeFailed
    /\ probe.outcome = Return("False")

\* C29: a backoff sleep that does not run to its end is a cancellation: the
\* KeyboardInterrupt leaves the wrapper and the operation is not invoked
\* again, neither in that step nor later.
C29_CancelledDuringBackoff ==
    [][\A t \in Threads :
        /\ (rt[t].pc = "sleep" /\ rt'[t] # rt[t] /\ rt'[t].slept = rt[t].slept)
              => /\ rt'[t].pc = "done"
                 /\ rt'[t].outcome = Raise(Exc("KeyboardInterrupt", 0))
                 /\ rt'[t].hist = rt[t].hist
        /\ (rt[t].pc = "done" /\ Interrupted(rt[t]))
              => rt'[t] = rt[t]
      ]_vars

\* interrupted in the first backoff, with attempts left
C29_Witness ==
    \E t \in Threads :
        /\ rt[t].pc = "done"
        /\ Interrupted(rt[t])
        /\ Len(rt[t].hist) = 1
        /\ rt[t].hist[1].type = "raise"
        /\ rt[t].slept = <<>>
        /\ rt[t].policy.max_attempts = MaxAttempts

\* C30: the retry policy of connect_with_retry is the one of the config the
\* instance was built with, whatever is done afterwards to the map the caller
\* handed in or to the config of another instance built from that map.
C30_ConfigOwnedByInstance ==
    \A t \in Threads :
        (rt[t].func = "connect" /\ rt[t].pc # "idle") =>
            rt[t].policy = ConfigPolicy(config_built)

----------------------------------------------------------------------------
(* Properties of the remaining lifecycle, metrics and retry claims *)

\* C36: when connect() reports failure by returning False without raising,
\* connect_with_retry on a disconnected instance does not leave the instance
\* connected and does not change the connection counter.
C36_FalseReturnNotConnected ==
    \A t \in Threads :
        (/\ cwr[t].op = "connect_with_retry"
         /\ cwr[t].state = "returned"
         /\ ~cwr[t].pre_connected
         /\ cwr[t].outcome = Return("False")) =>
            /\ ~cwr[t].post_connected
            /\ cwr[t].post_count = cwr[t].pre_count

\* C37: test_connection() returns with the instance in the lifecycle state it
\* was called in, Disconnected or Connected, and with the connection counter
\* unchanged.
C37_ProbeKeepsLifecycleState ==
    (probe.op = "test_connection" /\ probe.outcome.type = "return") =>
        /\ probe.post_connected = probe.pre_connected
        /\ probe.post_count = probe.pre_count

\* the three ways a call of the wrapper may end
EndsWithResult(f) ==
    /\ f.outcome.type = "return"
    /\ f.outcome = f.hist[Len(f.hist)]

EndsWithNonRetryable(f) ==
    /\ NonRetryable(f.policy, f.hist[Len(f.hist)])
    /\ f.outcome = f.hist[Len(f.hist)]

EndsExhausted(f) ==
    /\ Retryable(f.policy, f.hist[Len(f.hist)])
    /\ Len(f.hist) = f.policy.max_attempts
    /\ f.outcome = Raise(ExcFrom("RetryExhaustedError", f.hist[Len(f.hist)].exc))

RetryCallBounded(f) ==
    f.policy.max_attempts >= 1 =>
        /\ f.pc # "fallthrough"
        /\ Len(f.hist) <= f.policy.max_attempts
        /\ (f.pc = "done" /\ ~Interrupted(f)) =>
              /\ Len(f.hist) >= 1
              /\ \/ EndsWithResult(f) /\ ~EndsWithNonRetryable(f) /\ ~EndsExhausted(f)
                 \/ ~EndsWithResult(f) /\ EndsWithNonRetryable(f) /\ ~EndsExhausted(f)
                 \/ ~EndsWithResult(f) /\ ~EndsWithNonRetryable(f) /\ EndsExhausted(f)

\* a thread that has entered the wrapper goes on running: every sleep ends
\* and every call of func returns or raises
SpecRetryFair == SpecRetry /\ WF_vars(NextRetry)

\* C34: with max_attempts >= 1 a call of the wrapper ends, whatever the
\* operation does at each attempt, after at most max_attempts invocations;
\* unless its backoff was interrupted it ends with exactly one of the
\* operation's result, the operation's non-retryable failure or
\* RetryExhaustedError, and the raise after the loop is never reached.
C34_RetryCallTerminates ==
    /\ [](\A t \in Threads : RetryCallBounded(rt[t]))
    /\ \A t \in Threads :
          (rt[t].pc # "idle" /\ rt[t].policy.max_attempts >= 1)
              ~> (rt[t].pc = "done")

\* the result came at the last attempt the policy allows
C34_Witness ==
    \E t \in Threads :
        /\ rt[t].pc = "done"
        /\ rt[t].policy.max_attempts = MaxAttempts
        /\ Len(rt[t].hist) = MaxAttempts
        /\ EndsWithResult(rt[t])
        /\ \A i \in 1 .. MaxAttempts - 1 : Retryable(rt[t].policy, rt[t].hist[i])

----------------------------------------------------------------------------
(* Two threads using connection() on one instance, each read and write of   *)
(* _connected and each wait of connect() and disconnect() a step of its own *)

NextScopes ==
    \E t \in Threads :
        \/ EnterConnection(t)
        \/ RetryInvokeConnect(t)
        \/ RetryConnectAnswered(t)
        \/ ConnectRetrySleep(t)
        \/ CountConnectionRead(t)
        \/ IncrementWrite(t)
        \/ ConnectionEntered(t)
        \/ ConnectionYield(t)
        \/ ConnectionEntryFailed(t)
        \/ ConnectionExit(t)
        \/ ConnectionRelease(t)
        \/ ConnectionClosed(t)
        \/ ConnectionReleased(t)

SpecScopes == Init /\ [][NextScopes]_vars

\* C35: while a thread is inside the enclosed work of connection(), the
\* instance is connected, whatever the other thread does with its own
\* connection() scope on the same instance.
C35_ConnectedWhileInScope ==
    \A t \in Threads : pc[t] = "conn_body" => connected

----------------------------------------------------------------------------
(* Properties of reset_metrics *)

\* the counters and the total duration of the aggregate are those of the
\* operations in its list, each of them listed once
WhollyRecorded ==
    LET v == AggregateView
        succ == {i \in 1 .. Len(operations) : v.operations[i].success}
    IN  /\ \A i, j \in 1 .. Len(operations) :
              operations[i] = operations[j] => i = j
        /\ \A i \in 1 .. Len(operations) : v.operations[i].end_time # <<>>
        /\ successful_operations = Cardinality(succ)
        /\ failed_operations = Len(operations) - Cardinality(succ)
        /\ total_duration = SumDurations(v.operations)

\* thread t calls reset_metrics in this step
ResetStep(t) ==
    /\ calls'[t].begun = calls[t].begun + 1
    /\ mx'[t].op = "reset_metrics"

\* thread t is handed the copy made by get_metrics in this step
SnapshotStep(t) ==
    /\ mx[t].pc = "snap_counters"
    /\ mx'[t].pc = "idle"

\* a thread is between the first and the last write of an update
UpdateInFlight == \E t \in Threads : mx[t].pc \in {"count_write", "incr_write"}

\* C33: under any interleaving with end_operation and
\* increment_connection_count, reset_metrics leaves an empty aggregate with
\* no update half done; whenever no update is half done the counters and the
\* total duration are those of the operations listed; the aggregate changes
\* only by an update or a reset, and a copy taken of the aggregate a reset
\* left has no operations and all counters zero.
C33_ResetAtomic ==
    /\ [](~UpdateInFlight => WhollyRecorded)
    /\ [][\A t \in Threads :
            /\ ResetStep(t) =>
                  /\ Aggregate' = EmptyAggregate
                  /\ ~UpdateInFlight'
                  /\ ~UpdateInFlight
            /\ (SnapshotStep(t) /\ Aggregate = EmptyAggregate) =>
                  snap'[t] = <<EmptyAggregate>>
            /\ Aggregate' # Aggregate =>
                  \/ \E u \in Threads : ResetStep(u)
                  \/ \E u \in Threads :
                        mx[u].pc \in {"append", "count_write", "incr_write"}
                        /\ mx'[u] # mx[u]
       ]_vars

\* a reset has discarded the first operation while the second, ended by
\* another thread, waits for the lock
C33_Witness ==
    \E t, u \in Threads :
        /\ t # u
        /\ mx[t].op = "reset_metrics"
        /\ mx[u].op = "execute_with_metrics"
        /\ mx[u].pc = "append"
        /\ Len(heap) = 2
        /\ heap[1].end_time # <<>>
        /\ Aggregate = EmptyAggregate

----------------------------------------------------------------------------
(* end_operation called by a holder of the metric *)

\* the metrics a caller has a reference to: the one start_operation or its
\* last end_operation was about, and those listed in a copy it holds
HeldMetrics(t) ==
    (IF mx[t].op \in {"start_operation", "end_operation"} /\ mx[t].metric # 0
     THEN {mx[t].metric} ELSE {})
    \cup (IF snap[t] = <<>> THEN {}
          ELSE {snap[t][1].operations[i] : i \in 1 .. Len(snap[t][1].operations)})

\* metrics.end_operation(metric, success, error_message), some time after
\* the caller's last call: time.time() is read
CallEndOperation(t) ==
    /\ CanCall(t)
    /\ HasMetrics(config)
    /\ calls' = Begun(t)
    /\ clock' = clock + 1
    /\ \E id \in HeldMetrics(t), success \in BOOLEAN :
         mx' = [mx EXCEPT ![t] =
                  [BeginCall(t, "end_operation") EXCEPT
                      !.pc = "end_time", !.metric = id, !.now = clock + 1,
                      !.success = success,
                      !.pending = Return("None"), !.collector_calls = 1]]
    /\ UNCHANGED <<heap, operations, connection_count, successful_operations,
                   failed_operations, total_duration, lock, snap>>
    /\ UNCHANGED <<instanceVars, registryVars, probe, ownershipVars>>

\* end_operation: metric.end_time = the time read, whatever it was
EndOperationEndTime(t) ==
    /\ mx[t].pc = "end_time"
    /\ heap' = [heap EXCEPT ![mx[t].metric].end_time = <<mx[t].now>>]
    /\ mx' = [mx EXCEPT ![t].pc = "end_success"]
    /\ UNCHANGED <<operations, connection_count, successful_operations,
                   failed_operations, total_duration, lock, clock, snap, calls>>
    /\ UNCHANGED <<instanceVars, registryVars, probe, ownershipVars>>

\* end_operation: metric.success = success
EndOperationSuccess(t) ==
    /\ mx[t].pc = "end_success"
    /\ heap' = [heap EXCEPT ![mx[t].metric].success = mx[t].success]
    /\ mx' = [mx EXCEPT ![t].pc = "end_message"]
    /\ UNCHANGED <<operations, connection_count, successful_operations,
                   failed_operations, total_duration, lock, clock, snap, calls>>
    /\ UNCHANGED <<instanceVars, registryVars, probe, ownershipVars>>

\* end_operation: metric.error_message = error_message, the last statement
\* before the lock
EndOperationErrorMessage(t) ==
    /\ mx[t].pc = "end_message"
    /\ heap' = [heap EXCEPT ![mx[t].metric].error_message =
                    IF mx[t].success THEN <<>> ELSE <<"error">>]
    /\ mx' = [mx EXCEPT ![t].pc = "append"]
    /\ UNCHANGED <<operations, connection_count, successful_operations,
                   failed_operations, total_duration, lock, clock, snap, calls>>
    /\ UNCHANGED <<instanceVars, registryVars, probe, ownershipVars>>

\* the collector used directly: operations started and ended by the caller
NextCollector ==
    \E t \in Threads :
        \/ CallStartOperation(t)
        \/ CallEndOperation(t)
        \/ EndOperationEndTime(t)
        \/ EndOperationSuccess(t)
        \/ EndOperationErrorMessage(t)
        \/ EndOperationAppend(t)
        \/ EndOperationCountWrite(t)
        \/ ResetMetrics(t)
        \/ GetMetricsCopy(t)
        \/ GetMetricsReturn(t)
        \/ SummaryFilter(t)
        \/ SummarySum(t)
        \/ SummaryReturn(t)

SpecCollector == InitThreads /\ [][NextCollector]_vars

\* the metric has its end time, and no end_operation that has written it is
\* still on its way to writing the other two fields
EndedMetric(id) ==
    /\ heap[id].end_time # <<>>
    /\ \A t \in Threads :
          ~(mx[t].metric = id /\ mx[t].pc \in {"end_success", "end_message"})

\* C32: once end_operation has set the end time of a metric, no later call
\* of the collector, a second end_operation on that metric included, changes
\* its end time, success flag or error message.
C32_EndedMetricImmutable ==
    [][\A id \in 1 .. Len(heap) :
          EndedMetric(id) =>
             /\ heap'[id].end_time = heap[id].end_time
             /\ heap'[id].success = heap[id].success
             /\ heap'[id].error_message = heap[id].error_message
      ]_vars

----------------------------------------------------------------------------
(* Two instances of one class built from the same config map, each used by  *)
(* one caller at a time.  Every call is taken as one step.                  *)

\* the class of the instances of each kind of adapter
ClassOf(kind) ==
    CASE kind = "mock"       -> "MockConnector"
      [] kind = "postgresql" -> "PostgreSQLConnector"
      [] kind = "smtp"       -> "SMTPConnector"
      [] OTHER               -> "TwitterConnector"

\* how a caller comes by an instance: registry.create_connector(type_key,
\* config), or the class called with the config map alone
Origins == {"create_connector", "constructor"}

\* building an instance of the class from a valid config map: by
\* create_connector, which hands connector_name to the constructor, or by
\* cls(config), which every constructor accepts
BuildOutcome(cls, how) ==
    IF how = "create_connector" THEN Construct(cls, "valid", "a").out
    ELSE BaseInit("valid")

\* the same way of building an instance of the class used twice with the
\* same config map: no instance when the constructor raises, else two
\* instances, each with the metrics field its constructor set
BuildInstances(cls, cfg, how) ==
    IF BuildOutcome(cls, how).type = "raise"
    THEN [collectors |-> <<>>, metrics_of |-> <<>>]
    ELSE LET a == InitMetricsField(cfg, <<>>)
             b == InitMetricsField(cfg, a.collectors)
         IN  [collectors |-> b.collectors, metrics_of |-> <<a.id, b.id>>]

\* the instances built
InstanceIds == DOMAIN metrics_of

\* ConnectorMetrics.add_operation
AddOperation(a, id, m) ==
    [a EXCEPT !.operations = Append(@, id),
              !.successful_operations = IF m.success THEN @ + 1 ELSE @,
              !.failed_operations = IF m.success THEN @ ELSE @ + 1,
              !.total_duration = IF Duration(m) # <<>> THEN @ + Duration(m)[1]
                                 ELSE @]

\* get_metrics() of instance i, the metrics of its list as they are
SnapshotOf(i) ==
    IF metrics_of[i] = 0 THEN <<>>
    ELSE <<ViewOf(heap, collectors[metrics_of[i]])>>

\* connect_with_retry() run to its end by a caller nothing interleaves
\* with: the wrapper calls connect() with envs[1], envs[2], ... as what the
\* server does at each attempt, sleeping in between (the jitter of the
\* delays, drawn as 0 here, changes only how long it sleeps)
RECURSIVE RunConnectWithRetry(_, _, _, _)
RunConnectWithRetry(kind, s, f, envs) ==
    IF f.pc = "call"
    THEN LET r == AdapterConnect(kind, s, envs[Len(f.hist) + 1], Len(f.hist) + 1)
             g == WrapperAfterCall(f, r.out, 0)
         IN  RunConnectWithRetry(kind, r.s,
                                 IF g.pc = "sleep" THEN WrapperAfterSleep(g) ELSE g,
                                 envs)
    ELSE IF f.pc = "fallthrough"
    THEN [s |-> s, out |-> WrapperFallthrough(f).outcome]
    ELSE [s |-> s, out |-> f.outcome]

\* execute_with_metrics(name, func) on instance i; func takes one tick
InstanceExecuteWithMetrics(i) ==
    /\ ops < MaxOps
    /\ ops' = ops + 1
    /\ clock' = clock + 1
    /\ \E out \in ExecOutcomes :
         /\ icall' = [inst |-> i, op |-> "execute_with_metrics",
                      outcome |-> ExecHandler(out).outcome]
         /\ IF metrics_of[i] = 0
            THEN UNCHANGED <<heap, collectors>>
            ELSE LET c == metrics_of[i]
                     r == StartOperation(heap, collectors[c], "op", clock)
                     h == ExecHandler(out)
                     m == EndFields(r.heap[r.metric], h.success,
                                    h.error_message, clock + 1)
                 IN  IF h.ended
                     THEN /\ heap' = [r.heap EXCEPT ![r.metric] = m]
                          /\ collectors' = [collectors EXCEPT ![c] =
                                               AddOperation(r.agg, r.metric, m)]
                     ELSE /\ heap' = r.heap
                          /\ collectors' = [collectors EXCEPT ![c] = r.agg]
    /\ UNCHANGED <<rt, adapter, config, connected, resource, authenticated,
                   connection_count, pc, scope, cwr, direct, established>>
    /\ UNCHANGED <<operations, successful_operations, failed_operations,
                   total_duration, lock, mx, snap, calls>>
    /\ UNCHANGED <<registryVars, probe, config_maps, config_refs, config_built,
                   created_by, metrics_of, states_of>>

\* connect_with_retry() on instance i
InstanceConnectWithRetry(i) ==
    /\ ops < MaxOps
    /\ ops' = ops + 1
    /\ \E envs \in [1 .. ConfigPolicy(config).max_attempts -> ConnectEnvs(adapter)] :
         LET c == metrics_of[i]
             r == RunConnectWithRetry(adapter, states_of[i],
                                      WrapperStart(ConfigPolicy(config), "connect"),
                                      envs)
             m == CwrTail(config,
                          [s |-> r.s,
                           count |-> IF c = 0 THEN 0
                                     ELSE collectors[c].connection_count],
                          r.out)
         IN  /\ icall' = [inst |-> i, op |-> "connect_with_retry",
                          outcome |-> r.out]
             /\ states_of' = [states_of EXCEPT ![i] = m.s]
             /\ collectors' = IF c = 0 THEN collectors
                              ELSE [collectors EXCEPT
                                       ![c].connection_count = m.count]
    /\ UNCHANGED <<rt, adapter, config, connected, resource, authenticated,
                   connection_count, pc, scope, cwr, direct, established>>
    /\ UNCHANGED <<metricsVars, registryVars, probe, config_maps, config_refs,
                   config_built, created_by, metrics_of>>

\* metrics.reset_metrics() on instance i
InstanceResetMetrics(i) ==
    /\ ops < MaxOps
    /\ ops' = ops + 1
    /\ metrics_of[i] # 0
    /\ icall' = [inst |-> i, op |-> "reset_metrics", outcome |-> Return("None")]
    /\ collectors' = [collectors EXCEPT ![metrics_of[i]] = EmptyAggregate]
    /\ UNCHANGED <<rt, adapter, config, connected, resource, authenticated,
                   connection_count, pc, scope, cwr, direct, established>>
    /\ UNCHANGED <<metricsVars, registryVars, probe, config_maps, config_refs,
                   config_built, created_by, metrics_of, states_of>>

NextInstances ==
    \E i \in InstanceIds :
        \/ InstanceExecuteWithMetrics(i)
        \/ InstanceConnectWithRetry(i)
        \/ InstanceResetMetrics(i)

\* the instances of any of the adapters that two calls of create_connector
\* with the same type key, or two calls of the class, have built from one
\* config map
InitInstances ==
    /\ InitOne
    /\ config.retry = [max_attempts |-> 3, backoff_factor |-> 2,
                       initial_delay |-> 1, max_delay |-> 600]
    /\ created_by \in Origins
    /\ collectors = BuildInstances(ClassOf(adapter), config, created_by).collectors
    /\ metrics_of = BuildInstances(ClassOf(adapter), config, created_by).metrics_of
    /\ states_of = [i \in DOMAIN metrics_of |->
                       [connected |-> FALSE, resource |-> "none",
                        authenticated |-> FALSE]]

SpecInstances == InitInstances /\ [][NextInstances]_vars

\* C31: execute_with_metrics, connect_with_retry and reset_metrics on one
\* instance leave what get_metrics returns on any other instance as it was,
\* also when the other instance was built from the same type key and the
\* same config map.
C31_MetricsPerInstance ==
    [][\A j \in InstanceIds :
          icall'.inst # j => SnapshotOf(j)' = SnapshotOf(j)
      ]_vars

\* the first instance has recorded an operation and a connection, then the
\* second was reset, and each has kept its own
C31_Witness ==
    /\ created_by = "create_connector"
    /\ icall.inst = 2
    /\ icall.op = "reset_metrics"
    /\ metrics_of[1] # metrics_of[2]
    /\ Len(SnapshotOf(1)[1].operations) = 1
    /\ SnapshotOf(1)[1].connection_count = 1
    /\ SnapshotOf(2) = <<EmptyAggregate>>

====
